---- MODULE Spec2Model ----
(***************************************************************************)
(* Model of the hybrid audio synchronisation engine of VideoTranscoder     *)
(* (src/src/audio_sync.cpp, src/include/audio_sync.h).                     *)
(*                                                                         *)
(* float and double values are modelled as exact rationals (no rounding);  *)
(* size_t values as naturals, with the 64-bit wrap-around made explicit    *)
(* where the code subtracts.                                               *)
(***************************************************************************)
EXTENDS Integers, Sequences, FiniteSets, TLC

(***************************************************************************)
(* Exact arithmetic.  TLC integers are 32 bits wide, the products of the   *)
(* engine's values are not (a squared spectral centroid is about 10^8 and  *)
(* is then multiplied by offsets and weights), so naturals are sequences   *)
(* of base-BASE digits, least significant first, <<>> being zero, and a    *)
(* rational is [sg |-> sign, nu |-> numerator, de |-> denominator].        *)
(***************************************************************************)
BASE == 10000

RECURSIVE Strip(_)
Strip(a) ==
    IF a = <<>> THEN a
    ELSE IF a[Len(a)] = 0 THEN Strip(SubSeq(a, 1, Len(a) - 1)) ELSE a

RECURSIVE NatToBig(_)
NatToBig(k) == IF k = 0 THEN <<>> ELSE <<k % BASE>> \o NatToBig(k \div BASE)

RECURSIVE BAddC(_, _, _)
BAddC(a, b, c) ==
    IF b = <<>> /\ c = 0 THEN a
    ELSE IF a = <<>> /\ c = 0 THEN b
    ELSE LET x == IF a = <<>> THEN 0 ELSE Head(a)
             y == IF b = <<>> THEN 0 ELSE Head(b)
             s == x + y + c
         IN  <<s % BASE>> \o BAddC(IF a = <<>> THEN a ELSE Tail(a),
                                   IF b = <<>> THEN b ELSE Tail(b),
                                   s \div BASE)

BAdd(a, b) == BAddC(a, b, 0)

\* a - b for a >= b, digit by digit with a borrow
RECURSIVE BSubC(_, _, _)
BSubC(a, b, c) ==
    IF b = <<>> /\ c = 0 THEN a
    ELSE LET y == IF b = <<>> THEN 0 ELSE Head(b)
             s == Head(a) - y - c
         IN  <<(s + BASE) % BASE>> \o BSubC(Tail(a),
                                            IF b = <<>> THEN b ELSE Tail(b),
                                            IF s < 0 THEN 1 ELSE 0)

BSub(a, b) == Strip(BSubC(a, b, 0))

RECURSIVE BMulD(_, _, _)
BMulD(a, d, c) ==
    IF a = <<>> THEN (IF c = 0 THEN <<>> ELSE <<c>>)
    ELSE LET s == Head(a) * d + c
         IN  <<s % BASE>> \o BMulD(Tail(a), d, s \div BASE)

RECURSIVE BMul(_, _)
BMul(a, b) ==
    IF a = <<>> \/ b = <<>> THEN <<>>
    ELSE IF Len(b) = 1 THEN BMulD(a, b[1], 0)
    ELSE BAdd(BMulD(a, Head(b), 0), <<0>> \o BMul(a, Tail(b)))

\* -1, 0, 1 as a < b, a = b, a > b
RECURSIVE BCmpAt(_, _, _)
BCmpAt(a, b, i) ==
    IF i = 0 THEN 0
    ELSE IF a[i] < b[i] THEN -1
    ELSE IF a[i] > b[i] THEN 1
    ELSE BCmpAt(a, b, i - 1)

BCmp(a, b) ==
    IF Len(a) < Len(b) THEN -1
    ELSE IF Len(a) > Len(b) THEN 1
    ELSE BCmpAt(a, b, Len(a))

\* remainder and quotient by a small p (0 < p < BASE)
RECURSIVE BModAt(_, _, _, _)
BModAt(a, p, i, r) ==
    IF i = 0 THEN r ELSE BModAt(a, p, i - 1, (r * BASE + a[i]) % p)

BModSmall(a, p) == BModAt(a, p, Len(a), 0)

RECURSIVE BDivAt(_, _, _, _)
BDivAt(a, p, i, r) ==
    IF i = 0 THEN <<>>
    ELSE LET t == r * BASE + a[i]
         IN  BDivAt(a, p, i - 1, t % p) \o <<t \div p>>

BDivSmall(a, p) == Strip(BDivAt(a, p, Len(a), 0))

\* the small primes the engine's denominators are made of (sample rate
\* 44100 = 2^2 3^2 5^2 7^2, frame sizes 2^k, counts below 14)
SmallPrimes == <<2, 3, 5, 7, 11, 13>>

RECURSIVE ReduceBy(_, _, _)
ReduceBy(nu, de, k) ==
    IF k > Len(SmallPrimes) THEN <<nu, de>>
    ELSE LET p == SmallPrimes[k]
         IN  IF nu # <<>> /\ BModSmall(nu, p) = 0 /\ BModSmall(de, p) = 0
             THEN ReduceBy(BDivSmall(nu, p), BDivSmall(de, p), k)
             ELSE ReduceBy(nu, de, k + 1)

QZero == [sg |-> 0, nu |-> <<>>, de |-> <<1>>]
QOne == [sg |-> 1, nu |-> <<1>>, de |-> <<1>>]

QMake(sg, pair) == [sg |-> sg, nu |-> pair[1], de |-> pair[2]]

QNorm(sg, nu, de) ==
    IF nu = <<>> THEN QZero ELSE QMake(sg, ReduceBy(nu, de, 1))

\* the rational n/d of two machine integers, d > 0
Q(n, d) ==
    QNorm(IF n < 0 THEN -1 ELSE IF n = 0 THEN 0 ELSE 1,
          NatToBig(IF n < 0 THEN -n ELSE n), NatToBig(d))

QNeg(x) == [x EXCEPT !.sg = -x.sg]
QAbs(x) == [x EXCEPT !.sg = IF x.sg = 0 THEN 0 ELSE 1]

QMul(x, y) ==
    IF x.sg = 0 \/ y.sg = 0 THEN QZero
    ELSE QNorm(x.sg * y.sg, BMul(x.nu, y.nu), BMul(x.de, y.de))

QInv(x) == [sg |-> x.sg, nu |-> x.de, de |-> x.nu]
QDiv(x, y) == QMul(x, QInv(y))

\* sx a/d + sy b/d for signs sx, sy and naturals a, b, d
QAddScaled(sx, a, sy, b, d) ==
    QNorm(IF sx = sy \/ BCmp(a, b) > 0 THEN sx ELSE sy,
          IF sx = sy THEN BAdd(a, b)
          ELSE IF BCmp(a, b) > 0 THEN BSub(a, b)
          ELSE IF BCmp(a, b) < 0 THEN BSub(b, a)
          ELSE <<>>,
          d)

QAdd(x, y) ==
    IF x.sg = 0 THEN y
    ELSE IF y.sg = 0 THEN x
    ELSE IF x.de = y.de THEN QAddScaled(x.sg, x.nu, y.sg, y.nu, x.de)
    ELSE QAddScaled(x.sg, BMul(x.nu, y.de), y.sg, BMul(y.nu, x.de), BMul(x.de, y.de))

QSub(x, y) == QAdd(x, QNeg(y))

\* -1, 0, 1 as x < y, x = y, x > y
QCmp(x, y) ==
    IF x.sg # y.sg THEN (IF x.sg < y.sg THEN -1 ELSE 1)
    ELSE IF x.sg = 0 THEN 0
    ELSE x.sg * (IF x.de = y.de THEN BCmp(x.nu, y.nu)
                 ELSE BCmp(BMul(x.nu, y.de), BMul(y.nu, x.de)))

QLess(x, y) == QCmp(x, y) < 0
QLeq(x, y) == QCmp(x, y) <= 0
QEq(x, y) == QCmp(x, y) = 0
\* std::min(a, b) is (b < a) ? b : a, std::max(a, b) is (a < b) ? b : a
QMin(x, y) == IF QLess(y, x) THEN y ELSE x
QMax(x, y) == IF QLess(x, y) THEN y ELSE x

\* exact square root of a rational whose numerator and denominator are
\* perfect squares below BASE^2; any other value is rounded down to a
\* multiple of 1/100 (std::sqrt rounds too, to 24 bits)
RECURSIVE ISqrtIn(_, _, _)
ISqrtIn(n, lo, hi) ==
    IF lo >= hi THEN lo
    ELSE LET mid == (lo + hi + 1) \div 2
         IN  IF mid * mid <= n THEN ISqrtIn(n, mid, hi) ELSE ISqrtIn(n, lo, mid - 1)

ISqrt(n) == ISqrtIn(n, 0, IF n < 46340 THEN n ELSE 46340)

BigToNat(a) == IF a = <<>> THEN 0 ELSE IF Len(a) = 1 THEN a[1] ELSE a[1] + BASE * a[2]

QSqrtOf(n, d, rn, rd) ==
    IF rn * rn = n /\ rd * rd = d THEN Q(rn, rd)
    ELSE Q(ISqrt((n * 10000) \div d), 100)

QSqrtNat(n, d) == QSqrtOf(n, d, ISqrt(n), ISqrt(d))

QSqrt(x) ==
    IF x.sg = 0 THEN QZero ELSE QSqrtNat(BigToNat(x.nu), BigToNat(x.de))

(***************************************************************************)
(* Program constants.                                                      *)
(***************************************************************************)
MFCC_FRAME_SIZE == 2048
MFCC_HOP_SIZE == 512
\* loadAudioSamples forces the rate: "-ar 44100", sampleRate = 44100.0
SAMPLE_RATE == 44100
\* size_t is 64 bits wide: 2^64 as a natural
SIZE_MAX_PLUS_1 == BMul(NatToBig(65536 * 16384), BMul(NatToBig(65536 * 16384), NatToBig(16)))

(***************************************************************************)
(* Sample buffers (std::vector<float>).  A buffer is run-length encoded:   *)
(* a sequence of runs [len |-> number of samples, amp |-> their value].    *)
(* The sums the code takes sample by sample are taken run by run, which    *)
(* is the same sum.                                                        *)
(***************************************************************************)
RECURSIVE Size(_)
Size(buf) == IF buf = <<>> THEN 0 ELSE Head(buf).len + Size(Tail(buf))

\* the parts of the runs that lie in the sample range [lo, hi), in order,
\* as [u, v, amp]: samples u .. v-1 all have value amp
RECURSIVE OverlapsFrom(_, _, _, _)
OverlapsFrom(buf, at, lo, hi) ==
    IF buf = <<>> \/ at >= hi THEN <<>>
    ELSE LET e == at + Head(buf).len
             u == IF at > lo THEN at ELSE lo
             v == IF e < hi THEN e ELSE hi
             rest == OverlapsFrom(Tail(buf), e, lo, hi)
         IN  IF u < v THEN <<[u |-> u, v |-> v, amp |-> Head(buf).amp]>> \o rest
             ELSE rest

Overlaps(buf, lo, hi) == OverlapsFrom(buf, 0, lo, hi)

Abs(k) == IF k < 0 THEN -k ELSE k

\* sum of x[i]^2, of |x[i]|, of (i - base) |x[i]| and of (i - base) x[i]^2
RECURSIVE SumSq(_)
SumSq(ov) ==
    IF ov = <<>> THEN 0
    ELSE (Head(ov).v - Head(ov).u) * Head(ov).amp * Head(ov).amp + SumSq(Tail(ov))

RECURSIVE SumAbs(_)
SumAbs(ov) ==
    IF ov = <<>> THEN 0
    ELSE (Head(ov).v - Head(ov).u) * Abs(Head(ov).amp) + SumAbs(Tail(ov))

\* sum of (i - base) for i in u .. v-1
IndexSum(u, v, base) == ((v - u) * (u + v - 1 - 2 * base)) \div 2

RECURSIVE SumIdxAbs(_, _)
SumIdxAbs(ov, base) ==
    IF ov = <<>> THEN 0
    ELSE IndexSum(Head(ov).u, Head(ov).v, base) * Abs(Head(ov).amp)
         + SumIdxAbs(Tail(ov), base)

RECURSIVE SumIdxSq(_, _)
SumIdxSq(ov, base) ==
    IF ov = <<>> THEN 0
    ELSE IndexSum(Head(ov).u, Head(ov).v, base) * Head(ov).amp * Head(ov).amp
         + SumIdxSq(Tail(ov), base)

\* number of j in lo+1 .. hi-1 with (x[j] >= 0) # (x[j-1] >= 0)
RECURSIVE Crossings(_)
Crossings(ov) ==
    IF Len(ov) < 2 THEN 0
    ELSE (IF (ov[1].amp >= 0) # (ov[2].amp >= 0) THEN 1 ELSE 0) + Crossings(Tail(ov))


(***************************************************************************)
(* Feature extraction (HybridAudioSync::extractFeatures and its helpers).  *)
(***************************************************************************)
\* AudioFeatures() : sampleRate(0.0), frameCount(0), all series empty
EmptyFeatures ==
    [mfcc |-> <<>>, spectralCentroid |-> <<>>, energy |-> <<>>, zcr |-> <<>>,
     onsets |-> <<>>, sampleRate |-> 0, frameCount |-> 0]

\* a - b in size_t arithmetic (modulo 2^64), as a natural
SizeSub(a, b) ==
    IF a >= b THEN NatToBig(a - b) ELSE BSub(SIZE_MAX_PLUS_1, NatToBig(b - a))

\* size_t numFrames = (audio.size() - MFCC_FRAME_SIZE) / MFCC_HOP_SIZE + 1
NumFrames(n) ==
    BAdd(BDivSmall(SizeSub(n, MFCC_FRAME_SIZE), MFCC_HOP_SIZE), <<1>>)

\* The frame loops run frame = 0, 1, ... < numFrames; frame f reads the
\* samples f*HOP .. f*HOP + FRAME - 1.  FramesInside(n) is the number of
\* leading frames that lie inside a buffer of n samples, so the loop of
\* extractMFCC reads past the end of the buffer iff numFrames exceeds it.
FramesInside(n) ==
    IF n < MFCC_FRAME_SIZE THEN 0 ELSE (n - MFCC_FRAME_SIZE) \div MFCC_HOP_SIZE + 1

MfccReadsOutside(n) == BCmp(NumFrames(n), NatToBig(FramesInside(n))) > 0

\* one past the last sample index extractMFCC reads: the end of its last
\* frame, or of the first frame that leaves the buffer; an empty buffer
\* never reaches extractMFCC
MfccReadEnd(n) ==
    IF n = 0 THEN 0
    ELSE IF MfccReadsOutside(n) THEN FramesInside(n) * MFCC_HOP_SIZE + MFCC_FRAME_SIZE
    ELSE (FramesInside(n) - 1) * MFCC_HOP_SIZE + MFCC_FRAME_SIZE

\* extractMFCC, one frame: sum(i * |x|) / sum(|x|), 0 for a silent frame
MfccOfFrame(buf, frame) ==
    LET startIdx == frame * MFCC_HOP_SIZE
        ov == Overlaps(buf, startIdx, startIdx + MFCC_FRAME_SIZE)
        totalMagnitude == SumAbs(ov)
    IN  IF totalMagnitude > 0 THEN Q(SumIdxAbs(ov, startIdx), totalMagnitude)
        ELSE QZero

\* extractMFCC, for a buffer all of whose frames lie inside it
ExtractMFCC(buf) ==
    [f \in 1..FramesInside(Size(buf)) |-> MfccOfFrame(buf, f - 1)]

\* extractSpectralCentroid, one frame: the reads are guarded by
\* startIdx + i < audio.size()
CentroidOfFrame(buf, frame, sampleRate) ==
    LET startIdx == frame * MFCC_HOP_SIZE
        ov == Overlaps(buf, startIdx, startIdx + MFCC_FRAME_SIZE)
        totalEnergy == SumSq(ov)
    IN  IF totalEnergy > 0
        THEN QMul(Q(SumIdxSq(ov, startIdx), totalEnergy),
                  Q(sampleRate, 2 * MFCC_FRAME_SIZE))
        ELSE QZero

ExtractSpectralCentroid(buf, sampleRate) ==
    [f \in 1..FramesInside(Size(buf)) |-> CentroidOfFrame(buf, f - 1, sampleRate)]

\* number of passes of "for (i = 0; i < n; i += step)"
Steps(n, step) == (n + step - 1) \div step

Min2(a, b) == IF b < a THEN b ELSE a
Max2(a, b) == IF a < b THEN b ELSE a

\* the energy envelope: RMS of each hop
ExtractEnergy(buf) ==
    LET n == Size(buf)
    IN  [h \in 1..Steps(n, MFCC_HOP_SIZE) |->
           LET i == (h - 1) * MFCC_HOP_SIZE
               endIdx == Min2(i + MFCC_HOP_SIZE, n)
           IN  QSqrt(Q(SumSq(Overlaps(buf, i, endIdx)), endIdx - i))]

\* the zero crossing rate of each hop
ExtractZCR(buf) ==
    LET n == Size(buf)
    IN  [h \in 1..Steps(n, MFCC_HOP_SIZE) |->
           LET i == (h - 1) * MFCC_HOP_SIZE
               endIdx == Min2(i + MFCC_HOP_SIZE, n)
           IN  Q(Crossings(Overlaps(buf, i, endIdx)), endIdx - i)]

\* detectOnsets: windowSize = static_cast<size_t>(sampleRate * 0.02)
OnsetWindow(sampleRate) == (sampleRate * 2) \div 100

OnsetEnergy(buf, sampleRate) ==
    LET n == Size(buf)
        w == OnsetWindow(sampleRate)
    IN  [k \in 1..Steps(n, w) |->
           LET i == (k - 1) * w
               endIdx == Min2(i + w, n)
           IN  Q(SumSq(Overlaps(buf, i, endIdx)), endIdx - i)]

RECURSIVE OnsetPeaks(_, _, _)
OnsetPeaks(energy, w, i) ==
    \* i is the code's 0-based index; energy[i + 1] is its energy[i]
    IF i >= Len(energy) - 1 THEN <<>>
    ELSE (IF /\ QLess(Q(1, 10), energy[i + 1])
             /\ QLess(energy[i], energy[i + 1])
             /\ QLess(energy[i + 2], energy[i + 1])
          THEN <<i * w>> ELSE <<>>) \o OnsetPeaks(energy, w, i + 1)

DetectOnsets(buf, sampleRate) ==
    OnsetPeaks(OnsetEnergy(buf, sampleRate), OnsetWindow(sampleRate), 1)

\* extractFeatures for a buffer that extractMFCC reads inside its bounds
ExtractFeatures(buf) ==
    IF buf = <<>> THEN EmptyFeatures
    ELSE [mfcc |-> ExtractMFCC(buf),
          spectralCentroid |-> ExtractSpectralCentroid(buf, SAMPLE_RATE),
          energy |-> ExtractEnergy(buf),
          zcr |-> ExtractZCR(buf),
          onsets |-> DetectOnsets(buf, SAMPLE_RATE),
          sampleRate |-> SAMPLE_RATE,
          frameCount |-> Size(buf) \div MFCC_HOP_SIZE]


(***************************************************************************)
(* Content classification and the weight table.                            *)
(***************************************************************************)
\* the sum of xs[lo] .. xs[hi], split in halves: the additions are exact,
\* so their order does not matter
RECURSIVE QSumRange(_, _, _)
QSumRange(xs, lo, hi) ==
    IF lo > hi THEN QZero
    ELSE IF lo = hi THEN xs[lo]
    ELSE LET mid == (lo + hi) \div 2
         IN  QAdd(QSumRange(xs, lo, mid), QSumRange(xs, mid + 1, hi))

\* std::accumulate(xs.begin(), xs.end(), 0.0f)
QSum(xs) == QSumRange(xs, 1, Len(xs))

\* *std::max_element: the largest value of a non-empty series
RECURSIVE QMaxRange(_, _, _)
QMaxRange(xs, lo, hi) ==
    IF lo = hi THEN xs[lo]
    ELSE LET mid == (lo + hi) \div 2
         IN  QMax(QMaxRange(xs, lo, mid), QMaxRange(xs, mid + 1, hi))

QMaxOf(xs) == QMaxRange(xs, 1, Len(xs))

\* the classification with the MUSIC rule tried before the SPEECH rule
DetectMusicFirst(features) ==
    IF features.energy = <<>> THEN "UNKNOWN"
    ELSE LET avgEnergy == QDiv(QSum(features.energy), Q(Len(features.energy), 1))
             maxEnergy == QMaxOf(features.energy)
             avgZCR == IF features.zcr = <<>> THEN QZero
                       ELSE QDiv(QSum(features.zcr), Q(Len(features.zcr), 1))
             onsetCount == Len(features.onsets)
         IN  IF QLess(avgEnergy, Q(1, 100)) /\ QLess(maxEnergy, Q(5, 100))
             THEN "SILENCE"
             ELSE IF QLess(avgZCR, Q(15, 100)) /\ onsetCount > 15
             THEN "MUSIC"
             ELSE IF QLess(Q(1, 10), avgZCR) /\ QLess(avgZCR, Q(3, 10)) /\ onsetCount < 20
             THEN "SPEECH"
             ELSE IF QLess(Q(4, 10), avgZCR)
             THEN "NOISE"
             ELSE "MIXED"

\* detectContentType
DetectContentType(features) ==
    IF features.energy = <<>> THEN "UNKNOWN"
    ELSE LET avgEnergy == QDiv(QSum(features.energy), Q(Len(features.energy), 1))
             maxEnergy == QMaxOf(features.energy)
             avgZCR == IF features.zcr = <<>> THEN QZero
                       ELSE QDiv(QSum(features.zcr), Q(Len(features.zcr), 1))
             onsetCount == Len(features.onsets)
         IN  IF QLess(avgEnergy, Q(1, 100)) /\ QLess(maxEnergy, Q(5, 100))
             THEN "SILENCE"
             ELSE IF QLess(Q(1, 10), avgZCR) /\ QLess(avgZCR, Q(3, 10)) /\ onsetCount < 20
             THEN "SPEECH"
             ELSE IF QLess(avgZCR, Q(15, 100)) /\ onsetCount > 15
             THEN "MUSIC"
             ELSE IF QLess(Q(4, 10), avgZCR)
             THEN "NOISE"
             ELSE "MIXED"

AudioContent == {"SPEECH", "MUSIC", "MIXED", "SILENCE", "NOISE", "UNKNOWN"}

\* initializeAlgorithmWeights, in hundredths:
\* [CrossCorr, DTW, Onset, Spectral] for each content type
algorithmWeights ==
    [SPEECH  |-> <<40, 40, 10, 10>>,
     MUSIC   |-> <<20, 30, 30, 20>>,
     MIXED   |-> <<30, 30, 20, 20>>,
     SILENCE |-> <<70, 20, 5, 5>>,
     NOISE   |-> <<50, 30, 10, 10>>,
     UNKNOWN |-> <<35, 35, 15, 15>>]

\* the weight looked up for algorithm i (0-based) in findOptimalSync
WeightFor(contentType, i) == Q(algorithmWeights[contentType][i + 1], 100)

\* SyncResult() : offset(0.0), confidence(0.0)
SyncResult(algorithm) ==
    [offset |-> QZero, confidence |-> QZero, algorithm |-> algorithm]


(***************************************************************************)
(* CrossCorrelationSync.                                                   *)
(***************************************************************************)
\* size_t fftSize = 1; while (fftSize < resultSize) fftSize <<= 1;
RECURSIVE FftSizeFrom(_, _)
FftSizeFrom(fftSize, resultSize) ==
    IF fftSize < resultSize THEN FftSizeFrom(2 * fftSize, resultSize) ELSE fftSize

\* Element k (0-based) of inverse(forward(padded1) * conj(forward(padded2)))
\* for transforms of size N: the circular cross-correlation
\* sum over b of padded1[(b + k) mod N] * padded2[b].  padded2 is zero from
\* index len2 on and padded1 from index len1 on.
CircularSum(signal1, signal2, N, k) ==
    QSum([c \in 1..Len(signal2) |->
            LET a == (c - 1 + k) % N
            IN  IF a < Len(signal1) THEN QMul(signal1[a + 1], signal2[c])
                ELSE QZero])

\* std::inner_product(s.begin(), s.end(), s.begin(), 0.0f)
SumSquares(xs) == QSum([i \in 1..Len(xs) |-> QMul(xs[i], xs[i])])

\* the normalisation: correlation[i] /= norm1 * norm2 when both norms are
\* positive; norm1 * norm2 is taken as sqrt(sum1 * sum2), the same number
Normalized(signal1, signal2, resultSize, fftSize, sum1, sum2) ==
    IF sum1.sg > 0 /\ sum2.sg > 0
    THEN [i \in 1..resultSize |->
            QDiv(CircularSum(signal1, signal2, fftSize, i - 1),
                 QSqrt(QMul(sum1, sum2)))]
    ELSE [i \in 1..resultSize |-> CircularSum(signal1, signal2, fftSize, i - 1)]

\* computeNormalizedCrossCorrelation, the transform path (the sizes handed
\* to the FFTProcessor always match, so its catch block is never entered)
ComputeNormalizedCrossCorrelation(signal1, signal2) ==
    Normalized(signal1, signal2, Len(signal1) + Len(signal2) - 1,
               FftSizeFrom(1, Len(signal1) + Len(signal2) - 1),
               SumSquares(signal1), SumSquares(signal2))

\* std::max_element: the 1-based position of the first largest element
\* (a later element replaces the largest so far only when it is greater),
\* found by halves: the right half wins only with a greater element
RECURSIVE FirstMaxIn(_, _, _)
FirstMaxIn(xs, lo, hi) ==
    IF lo = hi THEN lo
    ELSE LET mid == (lo + hi) \div 2
             l == FirstMaxIn(xs, lo, mid)
             r == FirstMaxIn(xs, mid + 1, hi)
         IN  IF QLess(xs[l], xs[r]) THEN r ELSE l

FirstMax(xs) == FirstMaxIn(xs, 1, Len(xs))

\* the parabola through the peak and its two neighbours:
\* a = (y1 - 2*y2 + y3) / 2, correction = -(y3 - y1) / (4 * a)
ParabolaA(y1, y2, y3) == QDiv(QAdd(QSub(y1, QMul(Q(2, 1), y2)), y3), Q(2, 1))
ParabolaCorrection(y1, y3, a) == QNeg(QDiv(QSub(y3, y1), QMul(Q(4, 1), a)))

\* "if (std::abs(a) > 1e-6f)": the refined offset and the raised confidence
Refined(result, y1, y3, a, sampleRate) ==
    IF QLess(Q(1, 1000000), QAbs(a))
    THEN [result EXCEPT
            !.offset = QAdd(@, QDiv(ParabolaCorrection(y1, y3, a), Q(sampleRate, 1))),
            !.confidence = QMul(@, Q(11, 10))]
    ELSE result

\* the result from the peak at maxIndex (0-based) on
PeakResult(correlation, maxIndex, len1, sampleRate) ==
    IF maxIndex > 0 /\ maxIndex < Len(correlation) - 1
    THEN Refined([offset |-> Q(maxIndex - len1, sampleRate),
                  confidence |-> QMin(QOne, correlation[maxIndex + 1]),
                  algorithm |-> "CrossCorrelation"],
                 correlation[maxIndex], correlation[maxIndex + 2],
                 ParabolaA(correlation[maxIndex], correlation[maxIndex + 1],
                           correlation[maxIndex + 2]),
                 sampleRate)
    ELSE [offset |-> Q(maxIndex - len1, sampleRate),
          confidence |-> QMin(QOne, correlation[maxIndex + 1]),
          algorithm |-> "CrossCorrelation"]

Peak(correlation, len1, sampleRate) ==
    PeakResult(correlation, FirstMax(correlation) - 1, len1, sampleRate)

CrossCorrelationSynchronize(features1, features2) ==
    IF features1.energy = <<>> \/ features2.energy = <<>>
    THEN SyncResult("CrossCorrelation")
    ELSE Peak(ComputeNormalizedCrossCorrelation(features1.energy, features2.energy),
              Len(features1.energy), features1.sampleRate)

(***************************************************************************)
(* OnsetSync.                                                              *)
(***************************************************************************)
\* whether some onset of side 2 lies strictly within the tolerance of
\* expectedPos
WithinOrAt(onsets2, expectedPos) ==
    \E l \in 1..Len(onsets2) : Abs(onsets2[l] - expectedPos) <= 1000

OnsetMatches(onsets2, expectedPos) ==
    \E l \in 1..Len(onsets2) : Abs(onsets2[l] - expectedPos) < 1000

\* the score of one candidate offset (in samples)
OnsetScore(onsets1, onsets2, offset) ==
    Cardinality({k \in 1..Len(onsets1) : OnsetMatches(onsets2, onsets1[k] + offset)})

\* the two nested candidate loops, i outer and j inner (0-based), carrying
\* <<bestOffset, bestScore>>
RECURSIVE AlignFrom(_, _, _, _, _)
AlignFrom(onsets1, onsets2, i, j, best) ==
    IF i >= Min2(Len(onsets1), 5) THEN best
    ELSE IF j >= Min2(Len(onsets2), 5) THEN AlignFrom(onsets1, onsets2, i + 1, 0, best)
    ELSE LET offset == onsets2[j + 1] - onsets1[i + 1]
             score == OnsetScore(onsets1, onsets2, offset)
         IN  AlignFrom(onsets1, onsets2, i, j + 1,
                       IF score > best[2] THEN <<offset, score>> ELSE best)

\* alignOnsets: the best offset, in samples
AlignOnsets(onsets1, onsets2) ==
    IF onsets1 = <<>> \/ onsets2 = <<>> THEN 0
    ELSE AlignFrom(onsets1, onsets2, 0, 0, <<0, 0>>)[1]

\* needs at least 3 onsets on each side; result.offset = alignOnsets(...)
OnsetSynchronize(features1, features2) ==
    LET onsets1 == features1.onsets
        onsets2 == features2.onsets
        result == SyncResult("OnsetBased")
        minOnsets == Min2(Len(onsets1), Len(onsets2))
    IN  IF Len(onsets1) < 3 \/ Len(onsets2) < 3 THEN result
        ELSE [result EXCEPT
                !.offset = Q(AlignOnsets(onsets1, onsets2), 1),
                !.confidence = QMin(QOne, Q(minOnsets, 10))]

(***************************************************************************)
(* SpectralCorrelationSync.                                                *)
(***************************************************************************)
\* the indices i (0-based) of centroid1 whose partner j = i + lag exists
LagOverlap(centroid1, centroid2, lag) ==
    {i \in 0..(Len(centroid1) - 1) : i + lag >= 0 /\ i + lag < Len(centroid2)}

\* the sum of the overlapping products at one lag
LagSum(centroid1, centroid2, lag) ==
    QSum([c \in 1..Len(centroid1) |->
            IF c - 1 \in LagOverlap(centroid1, centroid2, lag)
            THEN QMul(centroid1[c], centroid2[c + lag]) ELSE QZero])

SumCandidate(centroid1, centroid2, lag) ==
    LET count == Cardinality(LagOverlap(centroid1, centroid2, lag))
        correlation == LagSum(centroid1, centroid2, lag)
    IN  IF count > 0 /\ QLess(Q(-1, 1), correlation)
        THEN <<correlation, lag>> ELSE <<Q(-1, 1), 0>>

\* <<bestCorr, bestLag>> after the pass of one lag alone, from the initial
\* <<-1, 0>>: "if (count > 0) { correlation /= count; if (correlation >
\* bestCorr) ... }"
LagCandidate(centroid1, centroid2, lag) ==
    LET count == Cardinality(LagOverlap(centroid1, centroid2, lag))
        correlation == QDiv(LagSum(centroid1, centroid2, lag), Q(count, 1))
    IN  IF count > 0 /\ QLess(Q(-1, 1), correlation)
        THEN <<correlation, lag>> ELSE <<Q(-1, 1), 0>>

\* the scan over lag = lo .. hi in increasing order, by halves: a later
\* lag replaces the best so far only with a greater correlation
RECURSIVE LagScan(_, _, _, _)
LagScan(centroid1, centroid2, lo, hi) ==
    IF lo > hi THEN <<Q(-1, 1), 0>>
    ELSE IF lo = hi THEN LagCandidate(centroid1, centroid2, lo)
    ELSE LET mid == (lo + hi + 2 * Len(centroid1)) \div 2 - Len(centroid1)
             l == LagScan(centroid1, centroid2, lo, mid)
             r == LagScan(centroid1, centroid2, mid + 1, hi)
         IN  IF QLess(l[1], r[1]) THEN r ELSE l

\* the default constructor argument hopSize = 512
SPECTRAL_HOP_SIZE == 512

SpectralCorrelationSynchronize(features1, features2) ==
    LET centroid1 == features1.spectralCentroid
        centroid2 == features2.spectralCentroid
        result == SyncResult("SpectralCorrelation")
    IN  IF centroid1 = <<>> \/ centroid2 = <<>> THEN result
        ELSE LET maxLag == Min2(Len(centroid1), Len(centroid2)) \div 2
                 best == LagScan(centroid1, centroid2, -maxLag, maxLag)
             IN  [result EXCEPT
                    !.offset = Q(best[2] * SPECTRAL_HOP_SIZE, features1.sampleRate),
                    !.confidence = QMax(QZero, best[1])]


(***************************************************************************)
(* DTWSync.  A cell of the cost matrix is a rational or Infinity           *)
(* (std::numeric_limits<float>::infinity()), which QCmp orders above every *)
(* rational.                                                               *)
(***************************************************************************)
Infinity == [sg |-> 2, nu |-> <<>>, de |-> <<1>>]
IsFinite(x) == x.sg # 2
\* float addition with an infinite operand
DAdd(x, y) == IF IsFinite(x) /\ IsFinite(y) THEN QAdd(x, y) ELSE Infinity

\* DTWSync(size_t maxWarpingWindow = 1000, float slopeConstraint = 2.0f)
SlopeConstraint == 2

\* size_t jStart = std::max(1UL, static_cast<size_t>(i / slopeConstraint))
JStart(i) == Max2(1, i \div SlopeConstraint)
\* size_t jEnd = std::min(len2, static_cast<size_t>(i * slopeConstraint) + 1)
JEnd(i, len2) == Min2(len2, i * SlopeConstraint + 1)

\* std::abs(features1[i] - features2[j]), i and j 0-based
LocalCost(features1, features2, i, j) ==
    QAbs(QSub(features1[i + 1], features2[j + 1]))

\* row 0: dtw[0][j] = dtw[0][j-1] + |features1[0] - features2[j]|
RECURSIVE FirstRow(_, _, _)
FirstRow(features1, features2, acc) ==
    LET j == Len(acc)
    IN  IF j >= Len(features2) THEN acc
        ELSE FirstRow(features1, features2,
                      Append(acc, DAdd(acc[j], LocalCost(features1, features2, 0, j))))

\* row i >= 1 from row i-1: acc holds the cells 0 .. Len(acc)-1 of row i
\* and starts with the cell of column 0; cells outside jStart .. jEnd-1
\* keep the Infinity the matrix was created with
RECURSIVE NextRow(_, _, _, _, _)
NextRow(features1, features2, i, prevRow, acc) ==
    LET j == Len(acc)
    IN  IF j >= Len(features2) THEN acc
        ELSE LET cost == LocalCost(features1, features2, i, j)
                 minPrev == QMin(QMin(prevRow[j + 1], acc[j]), prevRow[j])
                 cell == IF j >= JStart(i) /\ j < JEnd(i, Len(features2))
                         THEN DAdd(cost, minPrev) ELSE Infinity
             IN  NextRow(features1, features2, i, prevRow, Append(acc, cell))

RECURSIVE MatrixRows(_, _, _)
MatrixRows(features1, features2, rows) ==
    LET i == Len(rows)
    IN  IF i >= Len(features1) THEN rows
        ELSE LET prevRow == rows[i]
                 column0 == DAdd(prevRow[1], LocalCost(features1, features2, i, 0))
             IN  MatrixRows(features1, features2,
                            Append(rows, NextRow(features1, features2, i, prevRow,
                                                 <<column0>>)))

\* computeDTWMatrix for two non-empty series: dtw[i][j] is rows[i+1][j+1]
ComputeDTWMatrix(features1, features2) ==
    MatrixRows(features1, features2,
               <<FirstRow(features1, features2,
                          <<LocalCost(features1, features2, 0, 0)>>)>>)

\* traceback: the loop from (i, j) down to (0, 0); acc collects the points
\* in the order the code pushes them
RECURSIVE TracebackFrom(_, _, _, _)
TracebackFrom(dtwMatrix, i, j, acc) ==
    IF ~(i > 0 \/ j > 0) THEN acc
    ELSE LET here == Append(acc, <<i, j>>)
         IN  IF i = 0 THEN TracebackFrom(dtwMatrix, i, j - 1, here)
             ELSE IF j = 0 THEN TracebackFrom(dtwMatrix, i - 1, j, here)
             ELSE LET diagonal == dtwMatrix[i][j]
                      vertical == dtwMatrix[i][j + 1]
                      horizontal == dtwMatrix[i + 1][j]
                  IN  IF QLeq(diagonal, vertical) /\ QLeq(diagonal, horizontal)
                      THEN TracebackFrom(dtwMatrix, i - 1, j - 1, here)
                      ELSE IF QLeq(vertical, horizontal)
                      THEN TracebackFrom(dtwMatrix, i - 1, j, here)
                      ELSE TracebackFrom(dtwMatrix, i, j - 1, here)

\* a path that is returned in the order it was pushed
NotReversed(xs) == xs

\* std::reverse(path.begin(), path.end())
Reverse(xs) == [k \in 1..Len(xs) |-> xs[Len(xs) + 1 - k]]

Traceback(dtwMatrix) ==
    Reverse(Append(TracebackFrom(dtwMatrix, Len(dtwMatrix) - 1,
                                 Len(dtwMatrix[1]) - 1, <<>>),
                   <<0, 0>>))

\* for (size_t i = 0; i < mfcc.size(); i += scale) push_back(mfcc[i])
Downsample(xs, scale) ==
    [k \in 1..Steps(Len(xs), scale) |-> xs[(k - 1) * scale + 1]]

\* sum over the path of (point.second - point.first)
RECURSIVE PathOffsetSum(_)
PathOffsetSum(path) ==
    IF path = <<>> THEN 0 ELSE Head(path)[2] - Head(path)[1] + PathOffsetSum(Tail(path))

\* sum over the path of (pointOffset - avgOffset)^2
RECURSIVE PathSquares(_, _)
PathSquares(path, avgOffset) ==
    IF path = <<>> THEN QZero
    ELSE LET d == QSub(Q(Head(path)[2] - Head(path)[1], 1), avgOffset)
         IN  QAdd(QMul(d, d), PathSquares(Tail(path), avgOffset))

\* pathVariance: the mean over the path of (pointOffset - avgOffset)^2
\* where avgOffset = scaleOffset / path.size()
PathVariance(path, scaleOffset) ==
    QDiv(PathSquares(path, QDiv(scaleOffset, Q(Len(path), 1))), Q(Len(path), 1))

\* the two updates of one scale: st is [currentOffset, confidence,
\* dtwMatrix, path], scaleOffset the mean path offset times the scale
Refine(st, dtwMatrix, path, scaleOffset) ==
    [currentOffset |-> QDiv(QAdd(st.currentOffset, scaleOffset), Q(2, 1)),
     confidence |->
         QMax(st.confidence,
              QMax(QZero, QSub(QOne, QDiv(PathVariance(path, scaleOffset),
                                          Q(100, 1))))),
     dtwMatrix |-> dtwMatrix,
     path |-> path]

\* scaleOffset = (sum of (second - first) / path.size()) * scale
ScaleOffset(path, scale) ==
    QMul(Q(PathOffsetSum(path), Len(path)), Q(scale, 1))

AlongPath(st, dtwMatrix, path, scale) ==
    Refine(st, dtwMatrix, path, ScaleOffset(path, scale))

Warp(st, dtwMatrix, scale) == AlongPath(st, dtwMatrix, Traceback(dtwMatrix), scale)

\* one pass of the loop of multiScaleDTW over a scale (the path of a
\* non-empty matrix is never empty)
ScaleStep(features1, features2, scale, st) ==
    IF features1.mfcc = <<>> \/ features2.mfcc = <<>> THEN st
    ELSE Warp(st, ComputeDTWMatrix(Downsample(features1.mfcc, scale),
                                   Downsample(features2.mfcc, scale)), scale)

\* std::vector<int> scales = {8, 4, 2, 1}
Scales == <<8, 4, 2, 1>>

RECURSIVE ScaleLoop(_, _, _, _)
ScaleLoop(features1, features2, k, st) ==
    IF k > Len(Scales) THEN st
    ELSE ScaleLoop(features1, features2, k + 1,
                   ScaleStep(features1, features2, Scales[k], st))

MultiScaleRun(features1, features2) ==
    ScaleLoop(features1, features2, 1,
              [currentOffset |-> QZero, confidence |-> QZero,
               dtwMatrix |-> <<>>, path |-> <<>>])

\* multiScaleDTW; with no scale processed the division by sampleRate is
\* not modelled (0.0 / 0.0 cannot arise: the caller has frameCount > 0)
MultiScaleDTW(features1, features2) ==
    LET st == MultiScaleRun(features1, features2)
    IN  [offset |-> IF features1.sampleRate = 0 THEN QZero
                    ELSE QMul(QDiv(st.currentOffset, Q(features1.sampleRate, 1)),
                              Q(MFCC_HOP_SIZE, 1)),
         confidence |-> st.confidence,
         algorithm |-> "DTW_MultiScale"]

\* DTWSync::synchronize: useMultiScale is set by the constructor and never
\* cleared, so the call is multiScaleDTW
DTWSynchronize(features1, features2) == MultiScaleDTW(features1, features2)


(***************************************************************************)
(* HybridAudioSync: the four algorithms in the order the constructor       *)
(* registers them, the fusion and the final confidence.                    *)
(***************************************************************************)
NumAlgorithms == 4

\* algorithms[i]->synchronize(features1, features2), i 0-based
Synchronize(i, features1, features2) ==
    CASE i = 0 -> CrossCorrelationSynchronize(features1, features2)
      [] i = 1 -> DTWSynchronize(features1, features2)
      [] i = 2 -> OnsetSynchronize(features1, features2)
      [] i = 3 -> SpectralCorrelationSynchronize(features1, features2)

\* the table weights alone, not scaled by the confidences
TableWeights(results, weights) ==
    [i \in 1..Min2(Len(results), Len(weights)) |-> weights[i]]

\* the loop of combineResults over i < min(results.size(), weights.size()):
\* adjustedWeight = weights[i] * results[i].confidence
AdjustedWeights(results, weights) ==
    [i \in 1..Min2(Len(results), Len(weights)) |->
        QMul(weights[i], results[i].confidence)]

\* totalWeight, weightedOffset and weightedConfidence
TotalWeight(results, adjusted) == QSum(adjusted)
WeightedOffset(results, adjusted) ==
    QSum([i \in 1..Len(adjusted) |-> QMul(results[i].offset, adjusted[i])])
WeightedConfidence(results, adjusted) ==
    QSum([i \in 1..Len(adjusted) |-> QMul(results[i].confidence, adjusted[i])])

Undivided(totalWeight, weightedOffset, weightedConfidence) ==
    IF QLess(QZero, totalWeight)
    THEN [offset |-> weightedOffset,
          confidence |-> weightedConfidence,
          algorithm |-> "Hybrid"]
    ELSE SyncResult("Hybrid")

\* if (totalWeight > 0.0f) { offset = weightedOffset / totalWeight; ... }
Combined(totalWeight, weightedOffset, weightedConfidence) ==
    IF QLess(QZero, totalWeight)
    THEN [offset |-> QDiv(weightedOffset, totalWeight),
          confidence |-> QDiv(weightedConfidence, totalWeight),
          algorithm |-> "Hybrid"]
    ELSE SyncResult("Hybrid")

CombineWith(results, adjusted) ==
    Combined(TotalWeight(results, adjusted), WeightedOffset(results, adjusted),
             WeightedConfidence(results, adjusted))

CombineResults(results, weights) ==
    IF results = <<>> \/ weights = <<>> THEN SyncResult("Hybrid")
    ELSE CombineWith(results, AdjustedWeights(results, weights))

\* confidence *= factor, whatever the condition
AlwaysTimes(condition, confidence, factor) == QMul(confidence, factor)

\* the three adjustments of computeConfidenceScore before its std::min
\* if (...) confidence *= factor
TimesIf(condition, confidence, factor) ==
    IF condition THEN QMul(confidence, factor) ELSE confidence

AdjustedConfidence(result, mfccBoth, onsets1, onsets2) ==
    TimesIf(QLess(Q(10, 1), QAbs(result.offset)),
            TimesIf(onsets1 > 5 /\ onsets2 > 5,
                    TimesIf(mfccBoth, result.confidence, Q(11, 10)),
                    Q(21, 20)),
            Q(4, 5))

\* the adjusted confidence as it is, without an upper limit
Unclamped(confidence) == confidence

\* return std::min(1.0f, confidence)
ClampConfidence(confidence) == QMin(QOne, confidence)

\* computeConfidenceScore: mfccBoth says that neither mfcc series is empty,
\* onsets1 and onsets2 are the sizes of the onset lists
ComputeConfidenceScore(result, mfccBoth, onsets1, onsets2) ==
    ClampConfidence(AdjustedConfidence(result, mfccBoth, onsets1, onsets2))

\* the result with the sign of its offset kept
NotNegated(result) == result

\* finalResult.offset = -finalResult.offset
Negated(result) == [result EXCEPT !.offset = QNeg(@)]

\* finalResult.confidence = computeConfidenceScore(finalResult, ...)
Scored(result, mfccBoth, onsets1, onsets2) ==
    [result EXCEPT
       !.confidence = ComputeConfidenceScore(result, mfccBoth, onsets1, onsets2)]

\* findOptimalSync from the combined result on
FinalResult(combined, mfccBoth, onsets1, onsets2) ==
    Scored(Negated(combined), mfccBoth, onsets1, onsets2)


(***************************************************************************)
(* The state of one call of HybridAudioSync::findOptimalSync.              *)
(*   audio1, audio2     the sample buffers loadAudioSamples returns        *)
(*   features1/2        the bundles extractFeatures returns                *)
(*   pc                 the position in findOptimalSync                    *)
(*   failure            "none", or how the process ended abnormally        *)
(*   mfccReadEnd        for each buffer, one past the last sample index    *)
(*                      extractMFCC has read (0 before it runs)            *)
(*   contentType        the result of detectContentType                    *)
(*   results, weights   the two vectors the algorithm loop fills           *)
(*   finalResult        the local finalResult / the returned SyncResult    *)
(*   dtwMatrix, path    the matrix and path of the last computeDTWMatrix   *)
(*                      and traceback calls                                *)
(*                                                                         *)
(* and of the two utility classes, which findOptimalSync does not use:     *)
(*                                                                         *)
(*   stats              a RollingStatistics instance                       *)
(*   observations       the values update was called with since the        *)
(*                      construction or the last reset, oldest first       *)
(*   discarded          the number of observations made before the last    *)
(*                      reset                                              *)
(*   processor          an fftw::FFTProcessor instance                     *)
(*   signal, spectrum   the input and output vectors of forward            *)
(*   inverseInput,      the input and output vectors of inverse            *)
(*   restored                                                              *)
(*                                                                         *)
(* of the loop of DTWSync::multiScaleDTW:                                  *)
(*                                                                         *)
(*   currentOffset      the running estimate, in frames                    *)
(*   dtwResult          the local result                                   *)
(*   scaleIndex         the position in scales of the next scale           *)
(*   scalePaths         for each scale processed so far, the scale and     *)
(*                      the path traceback returned for it                 *)
(*                                                                         *)
(* and of VideoTranscoder::findAudioMatches and processBatch:              *)
(*                                                                         *)
(*   directory          the file names directory_iterator yields for the   *)
(*                      input directory, in its order; a name is the       *)
(*                      sequence of its characters                         *)
(*   videoFiles,        the discovered files, in discovery order           *)
(*   audioFiles                                                            *)
(*   durations          what getFileDuration reports for each file         *)
(*   matches            the vector findAudioMatches fills                  *)
(*   usedAudioFiles     the audio files of the matches made so far         *)
(*   availableAudio     the audio files offered to the video matched last  *)
(*   batchResults       the vector processBatch fills                      *)
(*   progress           the local BatchProgress                            *)
(*   reports            the arguments of the reportProgress calls so far   *)
(***************************************************************************)
VARIABLES audio1, audio2, features1, features2, pc, failure, mfccReadEnd,
          contentType, results, weights, finalResult, dtwMatrix, path,
          currentOffset, dtwResult, scaleIndex, scalePaths,
          stats, observations, discarded, processor, signal, spectrum,
          inverseInput, restored,
          directory, videoFiles, audioFiles, durations, matches,
          usedAudioFiles, availableAudio, batchResults, progress, reports

statsVars == <<stats, observations, discarded>>
fftVars == <<processor, signal, spectrum, inverseInput, restored>>
utilityVars == <<statsVars, fftVars>>
scaleVars == <<currentOffset, dtwResult, scaleIndex, scalePaths>>
batchVars == <<directory, videoFiles, audioFiles, durations, matches,
               usedAudioFiles, availableAudio, batchResults, progress, reports>>
otherVars == <<utilityVars, scaleVars, batchVars>>
syncVars == <<audio1, audio2, features1, features2, mfccReadEnd, contentType,
              results, weights, finalResult, dtwMatrix, path, scaleVars>>

vars == <<audio1, audio2, features1, features2, pc, failure, mfccReadEnd,
          contentType, results, weights, finalResult, dtwMatrix, path,
          currentOffset, dtwResult, scaleIndex, scalePaths,
          stats, observations, discarded, processor, signal, spectrum,
          inverseInput, restored,
          directory, videoFiles, audioFiles, durations, matches,
          usedAudioFiles, availableAudio, batchResults, progress, reports>>

\* no RollingStatistics instance exists
NoStatistics ==
    /\ stats = [windowSize |-> 0, window |-> <<>>, currentIndex |-> 0,
                sum |-> QZero, sumSquared |-> QZero, filled |-> FALSE]
    /\ observations = <<>>
    /\ discarded = 0

\* no FFTProcessor instance exists
NoProcessor ==
    /\ processor = [size |-> 0, build |-> "fallback", input_buffer |-> <<>>,
                    output_buffer |-> <<>>]
    /\ signal = <<>>
    /\ spectrum = <<>>
    /\ inverseInput = <<>>
    /\ restored = <<>>

NoUtilities == NoStatistics /\ NoProcessor

(***************************************************************************)
(* The buffers the calls are made with.                                    *)
(***************************************************************************)
\* number of clicks of a click train, in hops: the silence before the first
\* click, between two clicks and after the last one; the largest delay of a
\* delayed copy, in hops
NumClicks == 5
ClickLead == 2
ClickGap == 3
ClickTail == 2
MaxDelay == 1

Run(len, amp) == IF len = 0 THEN <<>> ELSE <<[len |-> len, amp |-> amp]>>

\* n samples of value 1.0
Constant(n) == Run(n, 1)

\* clicks of one hop of value 1.0 in silence
RECURSIVE Clicks(_, _)
Clicks(clicks, gap) ==
    IF clicks = 1 THEN Run(MFCC_HOP_SIZE, 1)
    ELSE Run(MFCC_HOP_SIZE, 1) \o Run(gap * MFCC_HOP_SIZE, 0) \o Clicks(clicks - 1, gap)

ClickTrain(lead, clicks, gap, tail) ==
    Run(lead * MFCC_HOP_SIZE, 0) \o Clicks(clicks, gap) \o Run(tail * MFCC_HOP_SIZE, 0)

\* the buffer delayed by d hops: d hops of silence, then the buffer
Delayed(buf, d) == Run(d * MFCC_HOP_SIZE, 0) \o buf

\* lengths around the hop and the frame size
BufferLengths ==
    {0, 1, MFCC_HOP_SIZE - 1, MFCC_HOP_SIZE, MFCC_FRAME_SIZE - 1, MFCC_FRAME_SIZE,
     MFCC_FRAME_SIZE + 1, 2 * MFCC_FRAME_SIZE}

ConstantBuffers == {Constant(n) : n \in BufferLengths}

ClickTrains ==
    {ClickTrain(ClickLead, clicks, ClickGap, ClickTail) : clicks \in 3..NumClicks}

\* every pair of constant buffers; every click train with itself, with its
\* delayed copies and the delayed copies with it
InputPairs ==
    (ConstantBuffers \X ConstantBuffers)
    \cup {<<b, b>> : b \in ClickTrains}
    \cup {<<b, Delayed(b, d)>> : b \in ClickTrains, d \in 1..MaxDelay}
    \cup {<<Delayed(b, d), b>> : b \in ClickTrains, d \in 1..MaxDelay}

\* the outcomes of extractMFCC reading past the end of its buffer: the
\* read leaves the mapped memory, or the 2^55-entry result cannot be
\* allocated
UBOutcomes == {"segfault", "bad_alloc"}

NoResult == SyncResult("")

\* multiScaleDTW is not running
NoScales ==
    /\ currentOffset = QZero
    /\ dtwResult = NoResult
    /\ scaleIndex = 0
    /\ scalePaths = <<>>

\* the transcoder is not running
NoBatch ==
    /\ directory = <<>>
    /\ videoFiles = <<>>
    /\ audioFiles = <<>>
    /\ durations = <<>>
    /\ matches = <<>>
    /\ usedAudioFiles = <<>>
    /\ availableAudio = <<>>
    /\ batchResults = <<>>
    /\ progress = [totalFiles |-> 0, completedFiles |-> 0, successfulFiles |-> 0,
                   failedFiles |-> 0]
    /\ reports = <<>>

NoOthers == NoUtilities /\ NoScales /\ NoBatch

Init ==
    /\ NoOthers
    /\ \E pair \in InputPairs : audio1 = pair[1] /\ audio2 = pair[2]
    /\ features1 = EmptyFeatures
    /\ features2 = EmptyFeatures
    /\ pc = "extract1"
    /\ failure = "none"
    /\ mfccReadEnd = <<0, 0>>
    /\ contentType = "UNKNOWN"
    /\ results = <<>>
    /\ weights = <<>>
    /\ finalResult = NoResult
    /\ dtwMatrix = <<>>
    /\ path = <<>>

\* auto features1 = extractFeatures(audioFile1)
ExtractFeatures1 ==
    /\ pc = "extract1"
    /\ IF audio1 # <<>> /\ MfccReadsOutside(Size(audio1))
       THEN /\ pc' = "aborted"
            /\ failure' \in UBOutcomes
            /\ UNCHANGED features1
       ELSE /\ pc' = "extract2"
            /\ features1' = ExtractFeatures(audio1)
            /\ UNCHANGED failure
    /\ mfccReadEnd' = [mfccReadEnd EXCEPT ![1] = MfccReadEnd(Size(audio1))]
    /\ UNCHANGED otherVars
    /\ UNCHANGED <<audio1, audio2, features2, contentType, results, weights,
                   finalResult, dtwMatrix, path>>

\* auto features2 = extractFeatures(audioFile2)
ExtractFeatures2 ==
    /\ pc = "extract2"
    /\ IF audio2 # <<>> /\ MfccReadsOutside(Size(audio2))
       THEN /\ pc' = "aborted"
            /\ failure' \in UBOutcomes
            /\ UNCHANGED features2
       ELSE /\ pc' = "check"
            /\ features2' = ExtractFeatures(audio2)
            /\ UNCHANGED failure
    /\ mfccReadEnd' = [mfccReadEnd EXCEPT ![2] = MfccReadEnd(Size(audio2))]
    /\ UNCHANGED otherVars
    /\ UNCHANGED <<audio1, audio2, features1, contentType, results, weights,
                   finalResult, dtwMatrix, path>>

\* if (features1.frameCount == 0 || features2.frameCount == 0) return result
EmptyReturn ==
    /\ pc = "check"
    /\ features1.frameCount = 0 \/ features2.frameCount = 0
    /\ finalResult' = NoResult
    /\ pc' = "returned"
    /\ UNCHANGED otherVars
    /\ UNCHANGED <<audio1, audio2, features1, features2, failure, mfccReadEnd,
                   contentType, results, weights, dtwMatrix, path>>

\* AudioContent contentType = detectContentType(features1)
DetectContent ==
    /\ pc = "check"
    /\ ~(features1.frameCount = 0 \/ features2.frameCount = 0)
    /\ contentType' = DetectContentType(features1)
    /\ pc' = "run"
    /\ UNCHANGED otherVars
    /\ UNCHANGED <<audio1, audio2, features1, features2, failure, mfccReadEnd,
                   results, weights, finalResult, dtwMatrix, path>>

\* one pass of the loop over the algorithms: i = results.size()
RunAlgorithm ==
    /\ pc = "run"
    /\ LET i == Len(results)
           dtw == MultiScaleRun(features1, features2)
       IN  /\ results' = Append(results, Synchronize(i, features1, features2))
           /\ weights' = Append(weights, WeightFor(contentType, i))
           /\ IF i = 1
              THEN dtwMatrix' = dtw.dtwMatrix /\ path' = dtw.path
              ELSE UNCHANGED <<dtwMatrix, path>>
           /\ pc' = IF i + 1 < NumAlgorithms THEN "run" ELSE "combine"
    /\ UNCHANGED otherVars
    /\ UNCHANGED <<audio1, audio2, features1, features2, failure, mfccReadEnd,
                   contentType, finalResult>>

\* auto finalResult = combineResults(results, weights)
Combine ==
    /\ pc = "combine"
    /\ finalResult' = CombineResults(results, weights)
    /\ pc' = "score"
    /\ UNCHANGED otherVars
    /\ UNCHANGED <<audio1, audio2, features1, features2, failure, mfccReadEnd,
                   contentType, results, weights, dtwMatrix, path>>

\* finalResult.offset = -finalResult.offset;
\* finalResult.confidence = computeConfidenceScore(...); return finalResult
Finish ==
    /\ pc = "score"
    /\ finalResult' =
         FinalResult(finalResult,
                     features1.mfcc # <<>> /\ features2.mfcc # <<>>,
                     Len(features1.onsets), Len(features2.onsets))
    /\ pc' = "returned"
    /\ UNCHANGED otherVars
    /\ UNCHANGED <<audio1, audio2, features1, features2, failure, mfccReadEnd,
                   contentType, results, weights, dtwMatrix, path>>

Next ==
    \/ ExtractFeatures1
    \/ ExtractFeatures2
    \/ EmptyReturn
    \/ DetectContent
    \/ RunAlgorithm
    \/ Combine
    \/ Finish

Spec == Init /\ [][Next]_vars


(***************************************************************************)
(* Properties of findOptimalSync as a whole, checked under Spec.           *)
(***************************************************************************)
\* one analysis hop in seconds
Hop == Q(MFCC_HOP_SIZE, SAMPLE_RATE)

\* C2: when a source yields a bundle with frameCount 0, as an empty buffer
\* does, the call fails in no way, runs none of the four algorithms and
\* returns confidence 0 and offset 0.
C2_EmptyInput ==
    (audio1 = <<>> \/ audio2 = <<>>) =>
        /\ failure = "none"
        /\ pc # "aborted"
        /\ results = <<>>
        /\ pc = "returned" =>
              /\ QEq(finalResult.confidence, QZero)
              /\ QEq(finalResult.offset, QZero)

\* C2 happens: a call with an empty first buffer has returned.
C2_Witness ==
    /\ audio1 = <<>>
    /\ pc = "returned"
    /\ results = <<>>

\* C3: for a buffer of any length n >= 1 the extraction ends normally and
\* no frame extractMFCC reads ends beyond the n samples of the buffer.
C3_FramesInsideBuffer ==
    /\ failure = "none"
    /\ mfccReadEnd[1] <= Size(audio1)
    /\ mfccReadEnd[2] <= Size(audio2)

\* C3 happens: the features of a non-empty first buffer are extracted.
C3_Witness ==
    /\ audio1 # <<>>
    /\ pc = "extract2"
    /\ features1.mfcc # <<>>

\* energy.size() == zcr.size() == frameCount
C4_Lengths(features) ==
    /\ Len(features.energy) = features.frameCount
    /\ Len(features.zcr) = features.frameCount

\* C4: in every bundle extractFeatures produces, the energy series and the
\* zero crossing series have frameCount entries each.
C4_SeriesLengths == C4_Lengths(features1) /\ C4_Lengths(features2)

\* C4 happens: a bundle with frames has been extracted.
C4_Witness ==
    /\ pc = "extract2"
    /\ features1.frameCount > 0
    /\ C4_Lengths(features1)

\* C5: for two copies of the same non-empty buffer the returned offset is
\* at most one analysis hop away from 0.
C5_SelfOffset ==
    (pc = "returned" /\ audio1 # <<>> /\ audio1 = audio2) =>
        QLeq(QAbs(finalResult.offset), Hop)

\* C5 happens: a call with two copies of a non-empty buffer has returned
\* an offset within one hop of 0, all four algorithms having run.
C5_Witness ==
    /\ pc = "returned"
    /\ audio1 # <<>>
    /\ audio1 = audio2
    /\ Len(results) = NumAlgorithms
    /\ QLeq(QAbs(finalResult.offset), Hop)

\* C6: for two copies of the same buffer the returned confidence is at
\* least the confidence of each of the four algorithm results.
C6_SelfConfidence ==
    (pc = "returned" /\ audio1 = audio2) =>
        \A i \in 1..Len(results) :
            QLeq(results[i].confidence, finalResult.confidence)

\* C6 happens: a call with two copies of a buffer has returned with the
\* largest confidence there is, all four algorithms having run.
C6_Witness ==
    /\ pc = "returned"
    /\ audio1 = audio2
    /\ Len(results) = NumAlgorithms
    /\ QEq(finalResult.confidence, QOne)

\* the returned offset is -delta within one hop, for a delay of d hops
C7_Recovered(d) ==
    QLeq(QAbs(QAdd(finalResult.offset, QMul(Q(d, 1), Hop))), Hop)

\* C7: for a train of clicks and its copy delayed by delta, in either
\* order (delta > 0 and delta < 0), the returned offset is -delta within
\* one analysis hop.
C7_ShiftRecovery ==
    pc = "returned" =>
        \A b \in ClickTrains : \A d \in 1..MaxDelay :
            /\ (audio1 = b /\ audio2 = Delayed(b, d)) => C7_Recovered(d)
            /\ (audio1 = Delayed(b, d) /\ audio2 = b) => C7_Recovered(-d)

\* C7 happens: a call with a train of NumClicks clicks and its delayed copy
\* has returned, all four algorithms having run.
C7_Witness ==
    /\ pc = "returned"
    /\ Len(results) = NumAlgorithms
    /\ \E d \in 1..MaxDelay :
          /\ audio1 = ClickTrain(ClickLead, NumClicks, ClickGap, ClickTail)
          /\ audio2 = Delayed(audio1, d)


\* C19: every result an algorithm's synchronize returns has a confidence
\* of at least 0.0 and at most 1.0.
C19_AlgorithmConfidence ==
    \A i \in 1..Len(results) :
        /\ QLeq(QZero, results[i].confidence)
        /\ QLeq(results[i].confidence, QOne)

\* C19 happens: the four algorithms have run, OnsetSync with at least 3
\* onsets on each side.
C19_Witness ==
    /\ pc = "returned"
    /\ Len(results) = NumAlgorithms
    /\ QLess(QZero, results[3].confidence)
    /\ QLeq(results[3].confidence, QOne)


(***************************************************************************)
(* The fusion alone: findOptimalSync from its algorithm loop on, with the  *)
(* four results drawn from bounded sets instead of computed, so that the   *)
(* fusion is checked for results no input of InputPairs produces.          *)
(***************************************************************************)
\* confidences are multiples of 3/4 up to MaxConfidence of them (the
\* algorithms clamp below at 0, SpectralCorrelationSync not above);
\* offsets are -LargeOffset and LargeOffset seconds, beyond the 10 s of
\* computeConfidenceScore
MaxConfidence == 2
LargeOffset == 11

Confidences == {Q(3 * k, 4) : k \in 0..MaxConfidence}
Offsets == {Q(-LargeOffset, 1), Q(LargeOffset, 1)}

\* getName() of the four algorithms, as their results carry it
AlgorithmNames ==
    <<"CrossCorrelation", "DTW_MultiScale", "OnsetBased", "SpectralCorrelation">>

\* a buffer without onsets and one with more than five
FusionBuffers ==
    {Constant(MFCC_FRAME_SIZE), ClickTrain(ClickLead, NumClicks + 1, ClickGap, ClickTail)}

InitFusion ==
    /\ NoOthers
    /\ \E b \in FusionBuffers :
          /\ audio1 = b
          /\ audio2 = b
          /\ features1 = ExtractFeatures(b)
          /\ features2 = features1
    /\ contentType \in AudioContent
    /\ pc = "run"
    /\ failure = "none"
    /\ mfccReadEnd = <<MfccReadEnd(Size(audio1)), MfccReadEnd(Size(audio2))>>
    /\ results = <<>>
    /\ weights = <<>>
    /\ finalResult = NoResult
    /\ dtwMatrix = <<>>
    /\ path = <<>>

\* one pass of the loop over the algorithms with a drawn result
DrawResult ==
    /\ pc = "run"
    /\ \E offset \in Offsets, confidence \in Confidences :
          results' = Append(results, [offset |-> offset, confidence |-> confidence,
                                      algorithm |-> AlgorithmNames[Len(results) + 1]])
    /\ weights' = Append(weights, WeightFor(contentType, Len(results)))
    /\ pc' = IF Len(results) + 1 < NumAlgorithms THEN "run" ELSE "combine"
    /\ UNCHANGED otherVars
    /\ UNCHANGED <<audio1, audio2, features1, features2, failure, mfccReadEnd,
                   contentType, finalResult, dtwMatrix, path>>

NextFusion ==
    \/ DrawResult
    \/ Combine
    \/ Finish

SpecFusion == InitFusion /\ [][NextFusion]_vars


(***************************************************************************)
(* Properties of the fusion, checked under SpecFusion.                     *)
(***************************************************************************)
\* the confidence computeConfidenceScore has before its std::min, recomputed
\* from the results and weights of the loop
UnclampedConfidence ==
    AdjustedConfidence(Negated(CombineResults(results, weights)),
                       features1.mfcc # <<>> /\ features2.mfcc # <<>>,
                       Len(features1.onsets), Len(features2.onsets))

\* C1: whatever offsets and confidences the four algorithms produced, the
\* confidence of the result findOptimalSync returns is at least 0 and at
\* most 1.
C1_ConfidenceBounds ==
    pc = "returned" =>
        /\ QLeq(QZero, finalResult.confidence)
        /\ QLeq(finalResult.confidence, QOne)

\* C1 happens: a call has returned whose confidence was above 1 before the
\* final std::min, and another factor than 1 was applied to it.
C1_Witness ==
    /\ pc = "returned"
    /\ Len(results) = NumAlgorithms
    /\ QLess(QOne, UnclampedConfidence)
    /\ QEq(finalResult.confidence, QOne)

\* e_i = tableWeight_i * confidence_i, the table row being that of the
\* detected content type (i 1-based)
C10_Effective(i) ==
    QMul(Q(algorithmWeights[contentType][i], 100), results[i].confidence)

C10_EffectiveSum == QSum([i \in 1..NumAlgorithms |-> C10_Effective(i)])

C10_OffsetSum ==
    QSum([i \in 1..NumAlgorithms |-> QMul(results[i].offset, C10_Effective(i))])

C10_ConfidenceSum ==
    QSum([i \in 1..NumAlgorithms |-> QMul(results[i].confidence, C10_Effective(i))])

C10_Fused(fused, total, offsetSum, confidenceSum) ==
    IF QEq(total, QZero)
    THEN QEq(fused.offset, QZero) /\ QEq(fused.confidence, QZero)
    ELSE /\ QEq(fused.offset, QDiv(offsetSum, total))
         /\ QEq(fused.confidence, QDiv(confidenceSum, total))

\* C10: the result of combineResults for the four results and the table
\* weights of the detected content type has offset sum(offset_i * e_i) /
\* sum(e_i) and confidence sum(confidence_i * e_i) / sum(e_i) with
\* e_i = tableWeight_i * confidence_i, and both are 0 when sum(e_i) is 0.
C10_Fusion ==
    pc = "score" =>
        C10_Fused(finalResult, C10_EffectiveSum, C10_OffsetSum, C10_ConfidenceSum)

\* C10 happens: combineResults has fused four results that differ in offset
\* and in confidence, one of them with confidence 0, into a result with a
\* non-zero total effective weight.
C10_Witness ==
    /\ pc = "score"
    /\ Len(results) = NumAlgorithms
    /\ QLess(QZero, finalResult.confidence)
    /\ \E i, j \in 1..NumAlgorithms :
          /\ ~QEq(results[i].offset, results[j].offset)
          /\ QEq(results[i].confidence, QZero)
          /\ QLess(QZero, results[j].confidence)


\* sum / total, 0 when the total effective weight is 0
C11_Fused(total, sum) == IF QEq(total, QZero) THEN QZero ELSE QDiv(sum, total)

\* C11: whenever the four algorithms have run, the offset returned is the
\* negation of the weighted-average offset and the result is tagged
\* "Hybrid".
C11_NegatedFused ==
    (pc = "returned" /\ Len(results) = NumAlgorithms) =>
        /\ finalResult.algorithm = "Hybrid"
        /\ QEq(finalResult.offset, QNeg(C11_Fused(C10_EffectiveSum, C10_OffsetSum)))

\* C11 happens: a call has returned an offset that is a proper average of
\* different offsets, neither 0 nor one of the four.
C11_Witness ==
    /\ pc = "returned"
    /\ Len(results) = NumAlgorithms
    /\ QLess(QZero, finalResult.offset)
    /\ QLess(finalResult.offset, Q(LargeOffset, 1))

\* the factor num / den if it applies, else 1
C20_Factor(applies, num, den) == IF applies THEN Q(num, den) ELSE QOne

\* min(1, c * f1 * f2 * f3) for the fused confidence c and the negated
\* offset
C20_Expected(c, offset) ==
    QMin(QOne,
         QMul(QMul(QMul(c, C20_Factor(features1.mfcc # <<>> /\ features2.mfcc # <<>>,
                                      11, 10)),
                   C20_Factor(Len(features1.onsets) > 5 /\ Len(features2.onsets) > 5,
                              21, 20)),
              C20_Factor(QLess(Q(10, 1), QAbs(offset)), 4, 5)))

\* C20: the confidence returned is min(1, c * f1 * f2 * f3), c the fused
\* confidence, f1 = 1.1 iff both cepstral series are non-empty, f2 = 1.05
\* iff both sides have more than 5 onsets, f3 = 0.8 iff the absolute value
\* of the negated offset exceeds 10 s, each 1 otherwise.
C20_FinalConfidence ==
    (pc = "returned" /\ Len(results) = NumAlgorithms) =>
        QEq(finalResult.confidence,
            C20_Expected(C11_Fused(C10_EffectiveSum, C10_ConfidenceSum),
                         finalResult.offset))

\* C20 happens: a call has returned a confidence below 1 to which all three
\* factors were applied.
C20_Witness ==
    /\ pc = "returned"
    /\ Len(results) = NumAlgorithms
    /\ features1.mfcc # <<>> /\ features2.mfcc # <<>>
    /\ Len(features1.onsets) > 5 /\ Len(features2.onsets) > 5
    /\ QLess(Q(10, 1), QAbs(finalResult.offset))
    /\ QLess(QZero, finalResult.confidence)
    /\ QLess(finalResult.confidence, QOne)


(***************************************************************************)
(* DTWSync::computeDTWMatrix and traceback alone, on two drawn series of   *)
(* equal length.                                                           *)
(***************************************************************************)
MaxSeriesLen == 4

\* the value extractMFCC gives a silent frame and a frame of constant
\* samples: 0 and (0 + 1 + ... + 2047) / 2048
MfccValues == {QZero, Q(MFCC_FRAME_SIZE - 1, 2)}

SeriesOfLength(L) == [1..L -> MfccValues]

InitDTW ==
    /\ NoOthers
    /\ \E L \in 1..MaxSeriesLen :
          \E series1 \in SeriesOfLength(L), series2 \in SeriesOfLength(L) :
             /\ features1 = [EmptyFeatures EXCEPT !.mfcc = series1]
             /\ features2 = [EmptyFeatures EXCEPT !.mfcc = series2]
    /\ audio1 = <<>>
    /\ audio2 = <<>>
    /\ pc = "matrix"
    /\ failure = "none"
    /\ mfccReadEnd = <<0, 0>>
    /\ contentType = "UNKNOWN"
    /\ results = <<>>
    /\ weights = <<>>
    /\ finalResult = NoResult
    /\ dtwMatrix = <<>>
    /\ path = <<>>

\* auto dtwMatrix = computeDTWMatrix(mfcc1, mfcc2)
ComputeMatrix ==
    /\ pc = "matrix"
    /\ dtwMatrix' = ComputeDTWMatrix(features1.mfcc, features2.mfcc)
    /\ pc' = "traceback"
    /\ UNCHANGED otherVars
    /\ UNCHANGED <<audio1, audio2, features1, features2, failure, mfccReadEnd,
                   contentType, results, weights, finalResult, path>>

\* auto path = traceback(dtwMatrix)
TracePath ==
    /\ pc = "traceback"
    /\ path' = Traceback(dtwMatrix)
    /\ pc' = "traced"
    /\ UNCHANGED otherVars
    /\ UNCHANGED <<audio1, audio2, features1, features2, failure, mfccReadEnd,
                   contentType, results, weights, finalResult, dtwMatrix>>

NextDTW ==
    \/ ComputeMatrix
    \/ TracePath

SpecDTW == InitDTW /\ [][NextDTW]_vars

\* the band i/2 <= j <= 2i, i/2 rounded down as jStart is
C8_InBand(i, j) == i \div SlopeConstraint <= j /\ j <= i * SlopeConstraint

\* C8: for two series of equal length, every cell (i, j) of the matrix
\* computeDTWMatrix returns that lies outside the band i/2 <= j <= 2i holds
\* infinite cost, the cells of row 0 and column 0 included.
C8_BandCorrectness ==
    pc \in {"traceback", "traced"} =>
        \A i \in 0..(Len(dtwMatrix) - 1) : \A j \in 0..(Len(dtwMatrix[1]) - 1) :
            ~C8_InBand(i, j) => ~IsFinite(dtwMatrix[i + 1][j + 1])

\* C8 happens: a matrix has been computed that has cells outside the band
\* away from row 0 and column 0, and they hold infinite cost.
C8_Witness ==
    /\ pc = "traceback"
    /\ Len(dtwMatrix) >= 4
    /\ Len(dtwMatrix[1]) = Len(dtwMatrix)
    /\ ~C8_InBand(1, 3)
    /\ ~IsFinite(dtwMatrix[2][4])

(***************************************************************************)
(* OnsetSync::synchronize alone, on a drawn onset list and its shift.      *)
(***************************************************************************)
MaxOnsetSlot == 8
MaxShift == 2

\* detectOnsets reports multiples of its window, at local maxima of the
\* window energies: increasing, never at index 0 and never two neighbours
OnsetSlots(n) ==
    {slots \in [1..n -> 1..MaxOnsetSlot] :
        \A k \in 1..(n - 1) : slots[k + 1] >= slots[k] + 2}

OnsetLists ==
    UNION {{[k \in 1..n |-> slots[k] * OnsetWindow(SAMPLE_RATE)] :
               slots \in OnsetSlots(n)} : n \in 3..((MaxOnsetSlot + 1) \div 2)}

\* the onset list moved later by shift windows
Shifted(onsets, shift) ==
    [k \in 1..Len(onsets) |-> onsets[k] + shift * OnsetWindow(SAMPLE_RATE)]

OnsetFeatures(onsets) ==
    [EmptyFeatures EXCEPT !.onsets = onsets, !.sampleRate = SAMPLE_RATE]

InitOnset ==
    /\ NoOthers
    /\ \E base \in OnsetLists : \E shift \in 0..MaxShift :
          \/ /\ features1 = OnsetFeatures(base)
             /\ features2 = OnsetFeatures(Shifted(base, shift))
          \/ /\ features1 = OnsetFeatures(Shifted(base, shift))
             /\ features2 = OnsetFeatures(base)
    /\ audio1 = <<>>
    /\ audio2 = <<>>
    /\ pc = "onset"
    /\ failure = "none"
    /\ mfccReadEnd = <<0, 0>>
    /\ contentType = "UNKNOWN"
    /\ results = <<>>
    /\ weights = <<>>
    /\ finalResult = NoResult
    /\ dtwMatrix = <<>>
    /\ path = <<>>

\* OnsetSync::synchronize(features1, features2)
OnsetRun ==
    /\ pc = "onset"
    /\ results' = <<OnsetSynchronize(features1, features2)>>
    /\ pc' = "onset_done"
    /\ UNCHANGED otherVars
    /\ UNCHANGED <<audio1, audio2, features1, features2, failure, mfccReadEnd,
                   contentType, weights, finalResult, dtwMatrix, path>>

NextOnset == OnsetRun

SpecOnset == InitOnset /\ [][NextOnset]_vars

\* side 2's onsets are side 1's moved by k samples
C9_ShiftedBy(k) ==
    /\ Len(features2.onsets) = Len(features1.onsets)
    /\ \A n \in 1..Len(features1.onsets) :
          features2.onsets[n] = features1.onsets[n] + k

\* C9: offsets are in seconds, positive when the second source starts
\* later: when side 2's onsets are side 1's shifted by k samples, with at
\* least 3 onsets each, OnsetSync::synchronize returns k / sampleRate.
C9_OnsetSeconds ==
    pc = "onset_done" =>
        \A shift \in (-MaxShift)..MaxShift :
            (/\ Len(features1.onsets) >= 3
             /\ C9_ShiftedBy(shift * OnsetWindow(SAMPLE_RATE))) =>
                QEq(results[1].offset,
                    Q(shift * OnsetWindow(SAMPLE_RATE), SAMPLE_RATE))

\* C9 happens: OnsetSync::synchronize has run on an onset list and its
\* copy shifted later by a non-zero number of samples.
C9_Witness ==
    /\ pc = "onset_done"
    /\ Len(features1.onsets) >= 3
    /\ \E shift \in 1..MaxShift : C9_ShiftedBy(shift * OnsetWindow(SAMPLE_RATE))
    /\ QLess(QZero, results[1].confidence)


(***************************************************************************)
(* HybridAudioSync::detectContentType alone, on drawn feature bundles.     *)
(***************************************************************************)
MaxContentFrames == 2

\* energies of silence, of a quiet and of a loud hop
EnergyLevels == {QZero, Q(3, 100), Q(1, 2)}

\* zero crossing rates below, between and above the thresholds of the rules
ZcrLevels == {QZero, Q(1, 8), Q(1, 5), Q(1, 2)}

\* onset counts around the thresholds 15 and 20 of the rules
OnsetCounts == {0, 16, 19, 20, 25}

\* a zero crossing series: none, or frames entries of one level
ZcrSeries(frames) == {<<>>} \cup {[k \in 1..frames |-> z] : z \in ZcrLevels}

\* count onsets, two windows apart
OnsetsOfCount(count) == [k \in 1..count |-> 2 * k * OnsetWindow(SAMPLE_RATE)]

ContentFeatures(energy, zcr, count, frameCount) ==
    [EmptyFeatures EXCEPT !.energy = energy, !.zcr = zcr,
                          !.onsets = OnsetsOfCount(count),
                          !.sampleRate = SAMPLE_RATE, !.frameCount = frameCount]

InitContent ==
    /\ NoOthers
    /\ \E frames \in 0..MaxContentFrames :
          \E energy \in [1..frames -> EnergyLevels], zcr \in ZcrSeries(frames),
             count \in OnsetCounts, frameCount \in {0, frames} :
                features1 = ContentFeatures(energy, zcr, count, frameCount)
    /\ features2 = EmptyFeatures
    /\ audio1 = <<>>
    /\ audio2 = <<>>
    /\ pc = "classify"
    /\ failure = "none"
    /\ mfccReadEnd = <<0, 0>>
    /\ contentType = "UNKNOWN"
    /\ results = <<>>
    /\ weights = <<>>
    /\ finalResult = NoResult
    /\ dtwMatrix = <<>>
    /\ path = <<>>

\* AudioContent contentType = detectContentType(features1)
Classify ==
    /\ pc = "classify"
    /\ contentType' = DetectContentType(features1)
    /\ pc' = "classified"
    /\ UNCHANGED otherVars
    /\ UNCHANGED <<audio1, audio2, features1, features2, failure, mfccReadEnd,
                   results, weights, finalResult, dtwMatrix, path>>

NextContent == Classify

SpecContent == InitContent /\ [][NextContent]_vars

\* the mean of a series, 0 for an empty one
C13_Avg(xs) == IF xs = <<>> THEN QZero ELSE QDiv(QSum(xs), Q(Len(xs), 1))

\* the rules in their order; the UNKNOWN rule is taken as the emptiness of
\* the energy series, its frameCount part being the subject of C14
C13_Rules == <<"UNKNOWN", "SILENCE", "SPEECH", "MUSIC", "NOISE", "MIXED">>

C13_Matches(rule, features) ==
    CASE rule = "UNKNOWN" -> features.energy = <<>>
      [] rule = "SILENCE" ->
            /\ features.energy # <<>>
            /\ QLess(C13_Avg(features.energy), Q(1, 100))
            /\ QLess(QMaxOf(features.energy), Q(5, 100))
      [] rule = "SPEECH" ->
            /\ QLess(Q(1, 10), C13_Avg(features.zcr))
            /\ QLess(C13_Avg(features.zcr), Q(3, 10))
            /\ Len(features.onsets) < 20
      [] rule = "MUSIC" ->
            /\ QLess(C13_Avg(features.zcr), Q(15, 100))
            /\ Len(features.onsets) > 15
      [] rule = "NOISE" -> QLess(Q(4, 10), C13_Avg(features.zcr))
      [] rule = "MIXED" -> TRUE

\* C13: detectContentType returns the first rule that matches in the order
\* UNKNOWN, SILENCE, SPEECH, MUSIC, NOISE, MIXED: features matching both
\* the SPEECH and the MUSIC rule are SPEECH, silent ones are SILENCE
\* whatever their zero crossing rate and onset count.
C13_RuleOrder ==
    pc = "classified" =>
        \E k \in 1..Len(C13_Rules) :
            /\ contentType = C13_Rules[k]
            /\ C13_Matches(C13_Rules[k], features1)
            /\ \A j \in 1..(k - 1) : ~C13_Matches(C13_Rules[j], features1)

\* C13 happens: features that are not silent and match the SPEECH rule and
\* the MUSIC rule (mean zero crossing rate in (0.1, 0.15), 16 to 19
\* onsets) have been classified.
C13_Witness ==
    /\ pc = "classified"
    /\ ~C13_Matches("UNKNOWN", features1)
    /\ ~C13_Matches("SILENCE", features1)
    /\ C13_Matches("SPEECH", features1)
    /\ C13_Matches("MUSIC", features1)
    /\ contentType = "SPEECH"

\* C14: detectContentType returns UNKNOWN whenever frameCount is 0 and
\* whenever the energy series is empty.
C14_UnknownRule ==
    (pc = "classified" /\ (features1.frameCount = 0 \/ features1.energy = <<>>)) =>
        contentType = "UNKNOWN"

\* C14 happens: features with an empty energy series have been classified
\* UNKNOWN.
C14_Witness ==
    /\ pc = "classified"
    /\ features1.energy = <<>>
    /\ contentType = "UNKNOWN"


(***************************************************************************)
(* The algorithm loop of findOptimalSync with the four synchronize calls   *)
(* taken in any order, as tasks that each deliver the result of their own  *)
(* algorithm: synchronize takes both bundles by const reference and        *)
(* assigns no member of its algorithm object.                              *)
(***************************************************************************)
\* every click train with itself, with its delayed copies and the delayed
\* copies with it
OrderPairs ==
    {<<b, b>> : b \in ClickTrains}
    \cup {<<b, Delayed(b, d)>> : b \in ClickTrains, d \in 1..MaxDelay}
    \cup {<<Delayed(b, d), b>> : b \in ClickTrains, d \in 1..MaxDelay}

\* the result of algorithm i (0-based) has been delivered
Ran(i) == \E k \in 1..Len(results) : results[k].algorithm = AlgorithmNames[i + 1]

\* the result delivered where the next free place is, in order of arrival
InArrivalOrder(delivered, i, result) ==
    LET free == {k \in 1..Len(delivered) : delivered[k].algorithm = ""}
    IN  [delivered EXCEPT ![CHOOSE k \in free : \A other \in free : k <= other] = result]

\* the result of algorithm i delivered at its own place, as the loop's
\* results.push_back does for i = results.size()
Placed(delivered, i, result) == [delivered EXCEPT ![i + 1] = result]

InitOrder ==
    /\ NoOthers
    /\ \E pair \in OrderPairs :
          /\ audio1 = pair[1]
          /\ audio2 = pair[2]
          /\ features1 = ExtractFeatures(pair[1])
          /\ features2 = ExtractFeatures(pair[2])
    /\ contentType = DetectContentType(features1)
    /\ pc = "run"
    /\ failure = "none"
    /\ mfccReadEnd = <<MfccReadEnd(Size(audio1)), MfccReadEnd(Size(audio2))>>
    /\ results = [i \in 1..NumAlgorithms |-> NoResult]
    /\ weights = [i \in 1..NumAlgorithms |-> QZero]
    /\ finalResult = NoResult
    /\ dtwMatrix = <<>>
    /\ path = <<>>

\* algorithms[i]->synchronize(features1, features2) for any i not yet run
RunAny ==
    /\ pc = "run"
    /\ \E i \in 0..(NumAlgorithms - 1) :
          /\ ~Ran(i)
          /\ results' = Placed(results, i, Synchronize(i, features1, features2))
          /\ weights' = [weights EXCEPT ![i + 1] = WeightFor(contentType, i)]
          /\ pc' = IF \A other \in 0..(NumAlgorithms - 1) : other = i \/ Ran(other)
                   THEN "combine" ELSE "run"
    /\ UNCHANGED otherVars
    /\ UNCHANGED <<audio1, audio2, features1, features2, failure, mfccReadEnd,
                   contentType, finalResult, dtwMatrix, path>>

NextOrder ==
    \/ RunAny
    \/ Combine
    \/ Finish

SpecOrder == InitOrder /\ [][NextOrder]_vars

\* the results and weights of the loop run in the order 0, 1, 2, 3
C12_SequentialResults ==
    [i \in 1..NumAlgorithms |-> Synchronize(i - 1, features1, features2)]

C12_SequentialWeights ==
    [i \in 1..NumAlgorithms |-> WeightFor(contentType, i - 1)]

MaxWindow == 3
MaxUpdates == 5

ObservationValues == {Q(-3, 2), QZero, Q(2, 1)}

\* the synchroniser is not running
NoSync ==
    /\ audio1 = <<>>
    /\ audio2 = <<>>
    /\ features1 = EmptyFeatures
    /\ features2 = EmptyFeatures
    /\ mfccReadEnd = <<0, 0>>
    /\ contentType = "UNKNOWN"
    /\ results = <<>>
    /\ weights = <<>>
    /\ finalResult = NoResult
    /\ dtwMatrix = <<>>
    /\ path = <<>>
    /\ NoScales

\* RollingStatistics(windowSize): window.resize(windowSize, 0.0f)
RollingStatistics(windowSize) ==
    [windowSize |-> windowSize,
     window |-> [i \in 1..windowSize |-> QZero],
     currentIndex |-> 0,
     sum |-> QZero,
     sumSquared |-> QZero,
     filled |-> FALSE]

\* an update that never removes the value it overwrites
KeepsOldest(s) == s

\* if (filled) { sum -= oldValue; sumSquared -= oldValue * oldValue; }
WithoutOldest(s) ==
    IF s.filled
    THEN [s EXCEPT !.sum = QSub(@, s.window[s.currentIndex + 1]),
                   !.sumSquared = QSub(@, QMul(s.window[s.currentIndex + 1],
                                               s.window[s.currentIndex + 1]))]
    ELSE s

\* the rest of update, on the instance r the removal left
Stored(r, value) ==
    [r EXCEPT !.window[r.currentIndex + 1] = value,
              !.sum = QAdd(@, value),
              !.sumSquared = QAdd(@, QMul(value, value)),
              !.currentIndex = (r.currentIndex + 1) % r.windowSize,
              !.filled = @ \/ (r.currentIndex + 1) % r.windowSize = 0]

\* void RollingStatistics::update(float value)
Update(s, value) == Stored(WithoutOldest(s), value)

\* size_t count = filled ? windowSize : currentIndex
Count(s) == IF s.filled THEN s.windowSize ELSE s.currentIndex

\* float RollingStatistics::mean() const
Mean(s) == IF Count(s) > 0 THEN QDiv(s.sum, Q(Count(s), 1)) ELSE QZero

\* float RollingStatistics::variance() const
Variance(s) ==
    IF Count(s) < 2 THEN QZero
    ELSE QSub(QDiv(s.sumSquared, Q(Count(s), 1)), QMul(Mean(s), Mean(s)))

\* float RollingStatistics::stdDev() const
StdDev(s) == QSqrt(Variance(s))

\* a reset that only rewinds the index
ResetIndexOnly(s) == [s EXCEPT !.currentIndex = 0]

\* void RollingStatistics::reset()
Reset(s) ==
    [s EXCEPT !.currentIndex = 0,
              !.sum = QZero,
              !.sumSquared = QZero,
              !.filled = FALSE,
              !.window = [i \in 1..s.windowSize |-> QZero]]

\* an instance of each window size; discarded counts the observations the
\* resets have dropped
InitStats ==
    /\ NoSync
    /\ NoBatch
    /\ \E windowSize \in 1..MaxWindow : stats = RollingStatistics(windowSize)
    /\ observations = <<>>
    /\ discarded = 0
    /\ pc = "constructed"
    /\ failure = "none"
    /\ NoProcessor

\* stats.update(value)
UpdateStats ==
    /\ pc \in {"constructed", "updated", "reset"}
    /\ discarded + Len(observations) < MaxUpdates
    /\ \E value \in ObservationValues :
          /\ stats' = Update(stats, value)
          /\ observations' = Append(observations, value)
    /\ pc' = "updated"
    /\ UNCHANGED <<discarded, failure>>
    /\ UNCHANGED fftVars
    /\ UNCHANGED syncVars
    /\ UNCHANGED batchVars

\* stats.reset()
ResetStats ==
    /\ pc \in {"constructed", "updated", "reset"}
    /\ stats' = Reset(stats)
    /\ observations' = <<>>
    /\ discarded' = discarded + Len(observations)
    /\ pc' = "reset"
    /\ UNCHANGED failure
    /\ UNCHANGED fftVars
    /\ UNCHANGED syncVars
    /\ UNCHANGED batchVars

NextStats == UpdateStats \/ ResetStats

SpecStats == InitStats /\ [][NextStats]_vars

\* the last min(n, W) of the observations
C15_Last(seen, windowSize) ==
    SubSeq(seen, IF Len(seen) > windowSize THEN Len(seen) - windowSize + 1 ELSE 1,
           Len(seen))

C15_Squares(xs) == [i \in 1..Len(xs) |-> QMul(xs[i], xs[i])]

C15_MeanOf(xs) == IF xs = <<>> THEN QZero ELSE QDiv(QSum(xs), Q(Len(xs), 1))

\* the population variance mean(x^2) - mean(x)^2, 0 below two observations
C15_VarianceOf(xs) ==
    IF Len(xs) < 2 THEN QZero
    ELSE QSub(C15_MeanOf(C15_Squares(xs)), QMul(C15_MeanOf(xs), C15_MeanOf(xs)))

C15_Over(s, last) ==
    /\ Count(s) = Len(last)
    /\ QEq(s.sum, QSum(last))
    /\ QEq(s.sumSquared, QSum(C15_Squares(last)))
    /\ QEq(Mean(s), C15_MeanOf(last))
    /\ QEq(Variance(s), C15_VarianceOf(last))
    /\ QEq(StdDev(s), QSqrt(C15_VarianceOf(last)))

\* C15: after n update calls since the construction or the last reset of a
\* RollingStatistics of window W >= 1, sum and sumSquared are the sum and
\* the sum of squares of exactly the last min(n, W) observations, mean() is
\* their arithmetic mean, and variance() and stdDev() are taken over them.
C15_WindowStatistics ==
    pc \in {"constructed", "updated", "reset"}
        => C15_Over(stats, C15_Last(observations, stats.windowSize))

\* more observations than the window holds, the one that left it not zero
C15_Witness ==
    /\ pc = "updated"
    /\ stats.windowSize >= 2
    /\ Len(observations) > stats.windowSize
    /\ ~QEq(observations[1], QZero)
    /\ ~QEq(Variance(stats), QZero)

\* the instance a new RollingStatistics becomes under the updates xs[1..n]
RECURSIVE C16_Replayed(_, _, _)
C16_Replayed(windowSize, xs, n) ==
    IF n = 0 THEN RollingStatistics(windowSize)
    ELSE Update(C16_Replayed(windowSize, xs, n - 1), xs[n])

\* C16: reset() returns the instance to the state of a freshly constructed
\* one of the same window size: mean() and variance() are 0 right after
\* it, and the updates made after it leave the mean and variance that the
\* same updates leave on a new instance, whatever was inserted before.
C16_ResetIsFresh ==
    /\ pc = "reset" =>
          /\ stats = RollingStatistics(stats.windowSize)
          /\ QEq(Mean(stats), QZero)
          /\ QEq(Variance(stats), QZero)
    /\ pc = "updated" /\ discarded > 0 =>
          /\ QEq(Mean(stats),
                 Mean(C16_Replayed(stats.windowSize, observations, Len(observations))))
          /\ QEq(Variance(stats),
                 Variance(C16_Replayed(stats.windowSize, observations, Len(observations))))

\* a window that was full of observations when it was reset, updated since
C16_Witness ==
    /\ pc = "updated"
    /\ stats.windowSize >= 2
    /\ discarded >= stats.windowSize
    /\ Len(observations) >= 2
    /\ ~QEq(Mean(stats), QZero)

(***************************************************************************)
(* fftw::FFTProcessor: the real-to-complex transform of a fixed size and   *)
(* its inverse.  The file compiles in two builds, with USE_FFTW (the       *)
(* library's plans work on the two buffers) and without (the loops of the  *)
(* fallback); the library computes the same unnormalised sums as the       *)
(* loops.  The sizes are those whose angles 2 pi k n / size are whole      *)
(* quarter turns, where cos and sin are 1, 0 or -1.                        *)
(***************************************************************************)
FftSizes == {1, 2, 4}
Builds == {"fallback", "fftw"}
SampleValues == {Q(-1, 1), QZero, Q(2, 1)}
\* what a newly allocated buffer may hold
StaleValues == {QZero, Q(-7, 1)}

Complex(re, im) == [re |-> re, im |-> im]
CZero == Complex(QZero, QZero)
CAdd(a, b) == Complex(QAdd(a.re, b.re), QAdd(a.im, b.im))
CMul(a, b) ==
    Complex(QSub(QMul(a.re, b.re), QMul(a.im, b.im)),
            QAdd(QMul(a.re, b.im), QMul(a.im, b.re)))
\* float * std::complex<float>
CScale(x, a) == Complex(QMul(x, a.re), QMul(x, a.im))

\* the angle 2 pi k n / size in quarter turns, modulo a full turn
QuarterTurns(k, n, size) == (k * n * (4 \div size)) % 4

\* std::complex<float>(std::cos(angle), std::sin(angle)) for the angle
\* sign * TWO_PI * k * n / size
Twiddle(sign, k, n, size) ==
    Complex(Q(<<1, 0, -1, 0>>[QuarterTurns(k, n, size) + 1], 1),
            Q(sign * <<0, 1, 0, -1>>[QuarterTurns(k, n, size) + 1], 1))

\* FFTProcessor(size): the two buffers are allocated, not initialised
FFTProcessor(size, build, stale) ==
    [size |-> size,
     build |-> build,
     input_buffer |-> [n \in 1..size |-> stale],
     output_buffer |-> [k \in 1..(size \div 2 + 1) |-> Complex(stale, stale)]]

\* a forward that accepts every input
NeverThrows(p, input) == FALSE

\* if (input.size() != size) throw std::invalid_argument(...)
ForwardThrows(p, input) == Len(input) # p.size

\* if (input.size() != size/2 + 1) throw std::invalid_argument(...)
InverseThrows(p, input) == Len(input) # p.size \div 2 + 1

\* std::copy(input.begin(), input.end(), buffer)
Copied(input, buffer) ==
    [n \in 1..Len(buffer) |-> IF n <= Len(input) THEN input[n] ELSE buffer[n]]

\* the loop over n of forward, from n on: sum += input_buffer[n] * ...
RECURSIVE BinSum(_, _, _, _)
BinSum(buffer, k, size, n) ==
    IF n >= size THEN CZero
    ELSE CAdd(CScale(buffer[n + 1], Twiddle(-1, k, n, size)),
              BinSum(buffer, k, size, n + 1))

\* the size/2 + 1 bins forward leaves in output
Dft(buffer, size) == [k \in 1..(size \div 2 + 1) |-> BinSum(buffer, k - 1, size, 0)]

\* an inverse that counts every bin once
Single(input, k, size) == input[k + 1]

\* mult = (k == 0 || k == size/2) ? input[k] : input[k] * 2.0f
Mult(input, k, size) ==
    IF k = 0 \/ k = size \div 2 THEN input[k + 1]
    ELSE CScale(Q(2, 1), input[k + 1])

\* the loop over k of inverse, from k on: sum += mult * ...
RECURSIVE SampleSum(_, _, _, _)
SampleSum(input, n, size, k) ==
    IF k >= size \div 2 + 1 THEN CZero
    ELSE CAdd(CMul(Mult(input, k, size), Twiddle(1, k, n, size)),
              SampleSum(input, n, size, k + 1))

\* sum.real() for each n: what the inverse plan leaves in input_buffer
Unnormalized(input, size) ==
    [n \in 1..size |-> SampleSum(input, n - 1, size, 0).re]

\* output[n] = sum.real() / size; output[i] = input_buffer[i] / size
DividedBy(sums, size) == [n \in 1..Len(sums) |-> QDiv(sums[n], Q(size, 1))]

\* the contents the inverse plan may leave in the buffer it reads: the
\* library does not preserve the input of a complex-to-real transform
Scratch(input) == {input, [k \in 1..Len(input) |-> CZero]}

\* the spectrum forward produced, and vectors one bin shorter and longer
InverseInputs(bins) ==
    {bins, SubSeq(bins, 1, Len(bins) - 1), bins \o <<CZero>>}

\* a processor of each size in each build, and a signal of the size, one
\* sample shorter or one sample longer
InitFFT ==
    /\ NoSync
    /\ NoBatch
    /\ NoStatistics
    /\ \E size \in FftSizes, build \in Builds, stale \in StaleValues :
          /\ processor = FFTProcessor(size, build, stale)
          /\ \E len \in {size - 1, size, size + 1} :
                signal \in [1..len -> SampleValues]
    /\ spectrum = <<>>
    /\ inverseInput = <<>>
    /\ restored = <<>>
    /\ pc = "forward"
    /\ failure = "none"

\* processor.forward(signal, spectrum)
Forward ==
    /\ pc = "forward"
    /\ IF ForwardThrows(processor, signal)
       THEN /\ failure' = "invalid_argument"
            /\ pc' = "forward_threw"
            /\ UNCHANGED <<processor, spectrum>>
       ELSE /\ processor' =
                 [processor EXCEPT
                    !.input_buffer = Copied(signal, @),
                    !.output_buffer =
                        IF processor.build = "fftw"
                        THEN Dft(Copied(signal, processor.input_buffer), processor.size)
                        ELSE @]
            /\ spectrum' = Dft(Copied(signal, processor.input_buffer), processor.size)
            /\ pc' = "inverse"
            /\ UNCHANGED failure
    /\ UNCHANGED <<signal, inverseInput, restored>>
    /\ UNCHANGED statsVars
    /\ UNCHANGED syncVars
    /\ UNCHANGED batchVars

\* processor.inverse(inverseInput, restored)
Inverse ==
    /\ pc = "inverse"
    /\ \E input \in InverseInputs(spectrum) :
          /\ inverseInput' = input
          /\ IF InverseThrows(processor, input)
             THEN /\ failure' = "invalid_argument"
                  /\ pc' = "inverse_threw"
                  /\ UNCHANGED <<processor, restored>>
             ELSE /\ IF processor.build = "fftw"
                     THEN \E scratch \in Scratch(input) :
                             processor' =
                                 [processor EXCEPT
                                    !.output_buffer = scratch,
                                    !.input_buffer = Unnormalized(input, processor.size)]
                     ELSE processor' = [processor EXCEPT !.output_buffer = Copied(input, @)]
                  /\ restored' = DividedBy(Unnormalized(input, processor.size), processor.size)
                  /\ pc' = "restored"
                  /\ UNCHANGED failure
    /\ UNCHANGED <<signal, spectrum>>
    /\ UNCHANGED statsVars
    /\ UNCHANGED syncVars
    /\ UNCHANGED batchVars

NextFFT == Forward \/ Inverse

SpecFFT == InitFFT /\ [][NextFFT]_vars

\* C17: forward fails when the input length differs from N and inverse
\* fails when the input length differs from N/2 + 1, and the failing call
\* leaves its output vector and both internal buffers as they were.
C17_SizeMismatch ==
    [][/\ pc = "forward" /\ Len(signal) # processor.size =>
             /\ failure' = "invalid_argument"
             /\ processor' = processor
             /\ spectrum' = spectrum
       /\ pc = "inverse" /\ Len(inverseInput') # processor.size \div 2 + 1 =>
             /\ failure' = "invalid_argument"
             /\ processor' = processor
             /\ restored' = restored]_vars

\* an inverse that was handed one bin too many and failed
C17_Witness ==
    /\ pc = "inverse_threw"
    /\ failure = "invalid_argument"
    /\ processor.size = 4
    /\ Len(inverseInput) = 4

\* C18: for a real buffer x of the configured size N, a power of two,
\* inverse(forward(x)) is x; forward leaves the sums unnormalised (bin 0
\* is the sum of x) and the division by N happens in inverse.
C18_RoundTrip ==
    pc = "restored" /\ inverseInput = spectrum =>
        /\ Len(restored) = processor.size
        /\ \A n \in 1..Len(signal) : QEq(restored[n], signal[n])
        /\ QEq(spectrum[1].re, QSum(signal))

\* a size with bins that count twice, one of them not zero
C18_Witness ==
    /\ pc = "restored"
    /\ inverseInput = spectrum
    /\ processor.size = 4
    /\ spectrum[2] # CZero
    /\ ~QEq(signal[1], signal[3])

(***************************************************************************)
(* DTWSync::traceback one loop iteration at a time, on the matrix of two   *)
(* series of any two lengths.  path holds the points in the order the      *)
(* loop pushes them; the locals i and j are where the last move led.       *)
(***************************************************************************)
MaxTraceLen == 4

\* a traceback that prefers the vertical predecessor on ties
VerticalFirst(matrix, i, j) ==
    IF i = 0 THEN <<i, j - 1>>
    ELSE IF j = 0 THEN <<i - 1, j>>
    ELSE IF QLeq(matrix[i][j + 1], matrix[i][j]) /\ QLeq(matrix[i][j + 1], matrix[i + 1][j])
         THEN <<i - 1, j>>
    ELSE IF QLeq(matrix[i][j], matrix[i + 1][j]) THEN <<i - 1, j - 1>>
    ELSE <<i, j - 1>>

\* the body of the while loop after path.emplace_back(i, j): the new
\* (i, j); matrix[i][j] is dtwMatrix[i-1][j-1], matrix[i][j + 1] is
\* dtwMatrix[i-1][j] and matrix[i + 1][j] is dtwMatrix[i][j-1]
Predecessor(matrix, i, j) ==
    IF i = 0 THEN <<i, j - 1>>
    ELSE IF j = 0 THEN <<i - 1, j>>
    ELSE IF QLeq(matrix[i][j], matrix[i][j + 1]) /\ QLeq(matrix[i][j], matrix[i + 1][j])
         THEN <<i - 1, j - 1>>
    ELSE IF QLeq(matrix[i][j + 1], matrix[i + 1][j]) THEN <<i - 1, j>>
    ELSE <<i, j - 1>>

\* size_t i = dtwMatrix.size() - 1; size_t j = dtwMatrix[0].size() - 1
BottomRight(matrix) == <<Len(matrix) - 1, Len(matrix[1]) - 1>>

\* the locals (i, j) after the pushes made so far
Cursor(matrix, pushed) ==
    IF pushed = <<>> THEN BottomRight(matrix)
    ELSE Predecessor(matrix, pushed[Len(pushed)][1], pushed[Len(pushed)][2])

InitTrace ==
    /\ NoOthers
    /\ \E n \in 1..MaxTraceLen, m \in 1..MaxTraceLen :
          \E series1 \in SeriesOfLength(n), series2 \in SeriesOfLength(m) :
             /\ features1 = [EmptyFeatures EXCEPT !.mfcc = series1]
             /\ features2 = [EmptyFeatures EXCEPT !.mfcc = series2]
             /\ dtwMatrix = ComputeDTWMatrix(series1, series2)
    /\ audio1 = <<>>
    /\ audio2 = <<>>
    /\ pc = "trace"
    /\ failure = "none"
    /\ mfccReadEnd = <<0, 0>>
    /\ contentType = "UNKNOWN"
    /\ results = <<>>
    /\ weights = <<>>
    /\ finalResult = NoResult
    /\ path = <<>>

\* while (i > 0 || j > 0) { path.emplace_back(i, j); ... }
TraceStep ==
    /\ pc = "trace"
    /\ Cursor(dtwMatrix, path) # <<0, 0>>
    /\ path' = Append(path, Cursor(dtwMatrix, path))
    /\ UNCHANGED otherVars
    /\ UNCHANGED <<audio1, audio2, features1, features2, pc, failure, mfccReadEnd,
                   contentType, results, weights, finalResult, dtwMatrix>>

\* path.emplace_back(0, 0); std::reverse(path.begin(), path.end()); return
TraceEnd ==
    /\ pc = "trace"
    /\ Cursor(dtwMatrix, path) = <<0, 0>>
    /\ path' = Reverse(Append(path, <<0, 0>>))
    /\ pc' = "traced"
    /\ UNCHANGED otherVars
    /\ UNCHANGED <<audio1, audio2, features1, features2, failure, mfccReadEnd,
                   contentType, results, weights, finalResult, dtwMatrix>>

NextTrace == TraceStep \/ TraceEnd

SpecTrace == InitTrace /\ [][NextTrace]_vars

\* the three predecessors of an interior cell in the order of preference:
\* diagonal, vertical, horizontal
C21_Candidates(i, j) == <<<<i - 1, j - 1>>, <<i - 1, j>>, <<i, j - 1>>>>

C21_Cost(matrix, point) == matrix[point[1] + 1][point[2] + 1]

C21_IsLowest(matrix, cands, k) ==
    \A l \in 1..3 : QLeq(C21_Cost(matrix, cands[k]), C21_Cost(matrix, cands[l]))

\* the first candidate, in the order of preference, of the lowest cost
C21_Lowest(matrix, cands) ==
    cands[CHOOSE k \in 1..3 :
            /\ C21_IsLowest(matrix, cands, k)
            /\ \A l \in 1..(k - 1) : ~C21_IsLowest(matrix, cands, l)]

\* C21: the traceback starts at the bottom-right cell (n-1, m-1), moves
\* from each interior cell to the predecessor of the lowest accumulated
\* cost among diagonal, vertical and horizontal, ties going to the
\* diagonal, then to the vertical, and ends at (0, 0).
C21_TracebackRule ==
    /\ pc = "trace" /\ path # <<>> => path[1] = BottomRight(dtwMatrix)
    /\ pc = "traced" =>
          /\ path = Traceback(dtwMatrix)
          /\ path[Len(path)] = BottomRight(dtwMatrix)
          /\ path[1] = <<0, 0>>
          /\ \A k \in 2..Len(path) :
                path[k][1] > 0 /\ path[k][2] > 0 =>
                    path[k - 1] = C21_Lowest(dtwMatrix,
                                             C21_Candidates(path[k][1], path[k][2]))

\* a finished path that left an interior cell where the diagonal and the
\* vertical predecessor tie, and another by a horizontal move
C21_Witness ==
    /\ pc = "traced"
    /\ \E k \in 2..Len(path) :
          /\ path[k][1] > 0 /\ path[k][2] > 0
          /\ QEq(dtwMatrix[path[k][1]][path[k][2]], dtwMatrix[path[k][1]][path[k][2] + 1])
          /\ path[k - 1] = <<path[k][1] - 1, path[k][2] - 1>>
    /\ \E k \in 2..Len(path) :
          /\ path[k][1] > 0 /\ path[k][2] > 0
          /\ path[k - 1] = <<path[k][1], path[k][2] - 1>>

C28_IsStep(from, to) ==
    \/ to = <<from[1] + 1, from[2]>>
    \/ to = <<from[1], from[2] + 1>>
    \/ to = <<from[1] + 1, from[2] + 1>>

\* C28: on a non-empty n x m matrix the loop of traceback makes at most
\* n + m - 2 iterations; the path it returns begins at (0, 0), ends at
\* (n-1, m-1) and moves by +1 in i, +1 in j or +1 in both between
\* consecutive points; for series of equal length every cell on the path
\* holds a finite accumulated cost.
C28_TracebackTerminates ==
    /\ pc = "trace" => Len(path) <= Len(dtwMatrix) + Len(dtwMatrix[1]) - 2
    /\ pc = "traced" =>
          /\ Len(path) - 1 <= Len(dtwMatrix) + Len(dtwMatrix[1]) - 2
          /\ path[1] = <<0, 0>>
          /\ path[Len(path)] = <<Len(dtwMatrix) - 1, Len(dtwMatrix[1]) - 1>>
          /\ \A k \in 1..(Len(path) - 1) : C28_IsStep(path[k], path[k + 1])
          /\ Len(dtwMatrix) = Len(dtwMatrix[1]) =>
                \A k \in 1..Len(path) : IsFinite(C21_Cost(dtwMatrix, path[k]))

\* a finished path over a square matrix that has cells of infinite cost
C28_Witness ==
    /\ pc = "traced"
    /\ Len(path) >= 4
    /\ Len(dtwMatrix) = Len(dtwMatrix[1])
    /\ \E i \in 1..Len(dtwMatrix) : \E j \in 1..Len(dtwMatrix) :
          ~IsFinite(dtwMatrix[i][j])

(***************************************************************************)
(* DTWSync::multiScaleDTW one scale at a time.                             *)
(***************************************************************************)
\* the longest series of which every one is drawn, and the length of
\* the series of which the coarsest scale leaves two frames
MaxScaleLen == 2
LongScaleLen == 9

\* no frame, or up to MaxScaleLen frames of any values
ShortSeries == UNION {SeriesOfLength(n) : n \in 0..MaxScaleLen}

\* LongScaleLen frames: a constant stretch and a last frame
LongSeries ==
    {[k \in 1..LongScaleLen |-> IF k < LongScaleLen THEN v ELSE w] :
        v \in MfccValues, w \in MfccValues}

InitScale ==
    /\ NoUtilities
    /\ NoBatch
    /\ \E series1 \in ShortSeries, series2 \in ShortSeries \cup LongSeries :
          /\ features1 = [EmptyFeatures EXCEPT !.mfcc = series1,
                                               !.sampleRate = SAMPLE_RATE]
          /\ features2 = [EmptyFeatures EXCEPT !.mfcc = series2,
                                               !.sampleRate = SAMPLE_RATE]
    /\ audio1 = <<>>
    /\ audio2 = <<>>
    /\ pc = "scales"
    /\ failure = "none"
    /\ mfccReadEnd = <<0, 0>>
    /\ contentType = "UNKNOWN"
    /\ results = <<>>
    /\ weights = <<>>
    /\ finalResult = NoResult
    /\ dtwMatrix = <<>>
    /\ path = <<>>
    /\ currentOffset = QZero
    /\ dtwResult = SyncResult("DTW_MultiScale")
    /\ scaleIndex = 1
    /\ scalePaths = <<>>

\* the locals after the body of the loop has left st
ScaleAssign(st, scale, processed) ==
    /\ currentOffset' = st.currentOffset
    /\ dtwResult' = [dtwResult EXCEPT !.confidence = st.confidence]
    /\ dtwMatrix' = st.dtwMatrix
    /\ path' = st.path
    /\ scalePaths' = IF processed
                     THEN Append(scalePaths, [scale |-> scale, path |-> st.path])
                     ELSE scalePaths

\* for (int scale : scales) { ... }: one iteration
ScaleIteration ==
    /\ pc = "scales"
    /\ scaleIndex <= Len(Scales)
    /\ ScaleAssign(ScaleStep(features1, features2, Scales[scaleIndex],
                             [currentOffset |-> currentOffset,
                              confidence |-> dtwResult.confidence,
                              dtwMatrix |-> dtwMatrix,
                              path |-> path]),
                   Scales[scaleIndex],
                   features1.mfcc # <<>> /\ features2.mfcc # <<>>)
    /\ scaleIndex' = scaleIndex + 1
    /\ UNCHANGED utilityVars
    /\ UNCHANGED batchVars
    /\ UNCHANGED <<audio1, audio2, features1, features2, pc, failure, mfccReadEnd,
                   contentType, results, weights, finalResult>>

\* result.offset = currentOffset / features1.sampleRate * MFCC_HOP_SIZE
ScaleReturn ==
    /\ pc = "scales"
    /\ scaleIndex > Len(Scales)
    /\ dtwResult' = [dtwResult EXCEPT
                        !.offset = QMul(QDiv(currentOffset, Q(features1.sampleRate, 1)),
                                        Q(MFCC_HOP_SIZE, 1))]
    /\ pc' = "returned"
    /\ UNCHANGED utilityVars
    /\ UNCHANGED batchVars
    /\ UNCHANGED <<audio1, audio2, features1, features2, failure, mfccReadEnd,
                   contentType, results, weights, finalResult, dtwMatrix, path,
                   currentOffset, scaleIndex, scalePaths>>

NextScale == ScaleIteration \/ ScaleReturn

SpecScale == InitScale /\ [][NextScale]_vars

\* the mean of j - i over the points of a path
C22_MeanOffset(points) == Q(PathOffsetSum(points), Len(points))

\* the mean path offset of the k-th processed scale in full-resolution
\* frames
C22_ScaleOffset(k) ==
    QMul(C22_MeanOffset(scalePaths[k].path), Q(scalePaths[k].scale, 1))

\* the running estimate after the first k processed scales: the 50/50
\* average of the previous estimate and the scale's offset, from 0
RECURSIVE C22_Estimate(_)
C22_Estimate(k) ==
    IF k = 0 THEN QZero
    ELSE QDiv(QAdd(C22_Estimate(k - 1), C22_ScaleOffset(k)), Q(2, 1))

\* C22: multiScaleDTW processes the scales 8, 4, 2, 1 in that order and
\* after each scale it does not skip sets the running estimate to the
\* 50/50 average of the previous estimate and the scale's mean path offset
\* in full-resolution frames; hence, when every scale yields the same mean
\* path offset d, the final offset is d * hop / sampleRate.
C22_Blend ==
    /\ \A k \in 1..Len(scalePaths) : scalePaths[k].scale = Scales[k]
    /\ pc = "scales" => QEq(currentOffset, C22_Estimate(Len(scalePaths)))
    /\ pc = "returned" /\ Len(scalePaths) = Len(Scales)
       /\ (\A k \in 2..Len(scalePaths) : QEq(C22_ScaleOffset(k), C22_ScaleOffset(1)))
          => QEq(dtwResult.offset,
                 QDiv(QMul(C22_ScaleOffset(1), Q(MFCC_HOP_SIZE, 1)),
                      Q(features1.sampleRate, 1)))

\* every scale has yielded the same mean path offset, four frames
C22_Witness ==
    /\ pc = "returned"
    /\ Len(scalePaths) = Len(Scales)
    /\ \A k \in 1..Len(scalePaths) : QEq(C22_ScaleOffset(k), Q(4, 1))

\* the sum over the points of (j - i - mean)^2
RECURSIVE C23_Squares(_, _)
C23_Squares(points, mean) ==
    IF points = <<>> THEN QZero
    ELSE QAdd(QMul(QSub(Q(Head(points)[2] - Head(points)[1], 1), mean),
                   QSub(Q(Head(points)[2] - Head(points)[1], 1), mean)),
              C23_Squares(Tail(points), mean))

\* the variance of the offsets j - i of a path around their mean
C23_Variance(points) ==
    QDiv(C23_Squares(points, C22_MeanOffset(points)), Q(Len(points), 1))

\* the largest of max(0, 1 - variance / 100) over the first k processed
\* scales, 0 for none
RECURSIVE C23_Best(_)
C23_Best(k) ==
    IF k = 0 THEN QZero
    ELSE QMax(C23_Best(k - 1),
              QMax(QZero, QSub(QOne, QDiv(C23_Variance(scalePaths[k].path),
                                          Q(100, 1)))))

\* C23: the confidence of multiScaleDTW is the maximum over the processed
\* scales of max(0, 1 - pathVariance / 100), where pathVariance is the
\* variance of the offsets j - i of the points of the scale's path around
\* the mean of those offsets.
C23_PathVariance ==
    pc \in {"scales", "returned"} =>
        QEq(dtwResult.confidence, C23_Best(Len(scalePaths)))

\* a scale has been processed whose path has points of different offsets
C23_Witness ==
    /\ pc = "scales"
    /\ Len(scalePaths) = 1
    /\ ~QEq(C23_Variance(scalePaths[1].path), QZero)

(***************************************************************************)
(* CrossCorrelationSync::synchronize alone, on drawn energy envelopes.     *)
(***************************************************************************)
MaxEnvelopeLen == 3

\* frame energies: silence, and two levels whose sums of squares have
\* square roots of at least 1
EnvelopeLevels == {QZero, QOne, Q(4, 1)}

\* the envelopes of one to MaxEnvelopeLen frames, the silent ones among them
Envelopes == UNION {[1..n -> EnvelopeLevels] : n \in 1..MaxEnvelopeLen}

EnvelopeFeatures(energy) ==
    [EmptyFeatures EXCEPT !.energy = energy, !.sampleRate = SAMPLE_RATE,
                          !.frameCount = Len(energy)]

InitCorrelation ==
    /\ NoOthers
    /\ \E energy1 \in Envelopes, energy2 \in Envelopes :
          /\ features1 = EnvelopeFeatures(energy1)
          /\ features2 = EnvelopeFeatures(energy2)
    /\ audio1 = <<>>
    /\ audio2 = <<>>
    /\ pc = "correlate"
    /\ failure = "none"
    /\ mfccReadEnd = <<0, 0>>
    /\ contentType = "UNKNOWN"
    /\ results = <<>>
    /\ weights = <<>>
    /\ finalResult = NoResult
    /\ dtwMatrix = <<>>
    /\ path = <<>>

\* auto result = algorithms[0]->synchronize(features1, features2)
Correlate ==
    /\ pc = "correlate"
    /\ results' = <<CrossCorrelationSynchronize(features1, features2)>>
    /\ pc' = "returned"
    /\ UNCHANGED otherVars
    /\ UNCHANGED <<audio1, audio2, features1, features2, failure, mfccReadEnd,
                   contentType, weights, finalResult, dtwMatrix, path>>

NextCorrelation == Correlate

SpecCorrelation == InitCorrelation /\ [][NextCorrelation]_vars

\* an envelope of zero L2 norm: every value is zero
C24_ZeroNorm(energy) == \A k \in 1..Len(energy) : QEq(energy[k], QZero)

\* C24: when either energy envelope is non-empty and of zero L2 norm,
\* CrossCorrelationSync::synchronize returns a result of confidence 0 and
\* offset 0, and does not fail.
C24_ZeroNormResult ==
    pc = "returned" /\ features1.energy # <<>> /\ features2.energy # <<>>
    /\ (C24_ZeroNorm(features1.energy) \/ C24_ZeroNorm(features2.energy))
        => /\ failure = "none"
           /\ QEq(results[1].confidence, QZero)
           /\ QEq(results[1].offset, QZero)

\* the call has returned for a silent first envelope of three frames
C24_Witness ==
    /\ pc = "returned"
    /\ Len(features1.energy) = 3
    /\ C24_ZeroNorm(features1.energy)
    /\ ~C24_ZeroNorm(features2.energy)
    /\ QEq(results[1].confidence, QZero)


(***************************************************************************)
(* OnsetSync::alignOnsets on onset lists that are not copies of each       *)
(* other: gaps of exactly 1000 and of 1500 samples, up to 7 onsets.        *)
(***************************************************************************)
MaxAlignOnsets == 7
ShortAlignOnsets == 4

AlignGaps == {1000, 1500}

RECURSIVE GapSum(_, _)
GapSum(gaps, k) == IF k = 0 THEN 0 ELSE gaps[k] + GapSum(gaps, k - 1)

\* the onset lists of n onsets, the first one at sample 500
AlignLists(n) ==
    {[k \in 1..n |-> 500 + GapSum(gaps, k - 1)] : gaps \in [1..(n - 1) -> AlignGaps]}

LongAlignLists == UNION {AlignLists(n) : n \in 3..MaxAlignOnsets}

ShortAlignLists == UNION {AlignLists(n) : n \in 3..ShortAlignOnsets}

InitAlign ==
    /\ NoOthers
    /\ \E long \in LongAlignLists : \E short \in ShortAlignLists :
          \/ /\ features1 = OnsetFeatures(long)
             /\ features2 = OnsetFeatures(short)
          \/ /\ features1 = OnsetFeatures(short)
             /\ features2 = OnsetFeatures(long)
    /\ audio1 = <<>>
    /\ audio2 = <<>>
    /\ pc = "align"
    /\ failure = "none"
    /\ mfccReadEnd = <<0, 0>>
    /\ contentType = "UNKNOWN"
    /\ results = <<>>
    /\ weights = <<>>
    /\ finalResult = NoResult
    /\ dtwMatrix = <<>>
    /\ path = <<>>

\* OnsetSync::synchronize(features1, features2), whose offset is the value
\* alignOnsets returns
AlignRun ==
    /\ pc = "align"
    /\ results' = <<OnsetSynchronize(features1, features2)>>
    /\ pc' = "aligned"
    /\ UNCHANGED otherVars
    /\ UNCHANGED <<audio1, audio2, features1, features2, failure, mfccReadEnd,
                   contentType, weights, finalResult, dtwMatrix, path>>

NextAlign == AlignRun

SpecAlign == InitAlign /\ [][NextAlign]_vars

\* how many onsets of a side take part in the candidates
C25_Tried(onsets) == IF Len(onsets) < 5 THEN Len(onsets) ELSE 5

\* the number of candidates
C25_NumCandidates == C25_Tried(features1.onsets) * C25_Tried(features2.onsets)

\* the shift of candidate c, counted from 0 with i outer and j inner
C25_Shift(c) ==
    features2.onsets[(c % C25_Tried(features2.onsets)) + 1]
        - features1.onsets[(c \div C25_Tried(features2.onsets)) + 1]

\* the number of side-1 onsets that, moved by shift, lie strictly within
\* 1000 samples of some side-2 onset
C25_Score(shift) ==
    Cardinality({k \in 1..Len(features1.onsets) :
        \E l \in 1..Len(features2.onsets) :
            /\ features2.onsets[l] - (features1.onsets[k] + shift) < 1000
            /\ (features1.onsets[k] + shift) - features2.onsets[l] < 1000})

\* the first candidate no other candidate beats
C25_Winner ==
    CHOOSE c \in 0..(C25_NumCandidates - 1) :
        \A d \in 0..(C25_NumCandidates - 1) :
            /\ C25_Score(C25_Shift(d)) <= C25_Score(C25_Shift(c))
            /\ d < c => C25_Score(C25_Shift(d)) < C25_Score(C25_Shift(c))

\* C25: with at least 3 onsets per side, alignOnsets returns the shift
\* onsets2[j] - onsets1[i], i and j among the first 5 onsets of each side,
\* that has the highest score (the number of side-1 onsets that after the
\* shift lie strictly within 1000 samples of some side-2 onset); among equal
\* scores the first candidate found, i outer and j inner, wins.
C25_AlignOnsets ==
    (/\ pc = "aligned"
     /\ Len(features1.onsets) >= 3
     /\ Len(features2.onsets) >= 3) =>
        QEq(results[1].offset, Q(C25_Shift(C25_Winner), 1))

\* C25 happens: alignOnsets has run on a side of more than 5 onsets where a
\* later candidate with another shift ties with the winner, and where some
\* onset lies exactly 1000 samples from a shifted one.
C25_Witness ==
    /\ pc = "aligned"
    /\ Len(features1.onsets) > 5
    /\ Len(features2.onsets) >= 3
    /\ \E d \in (C25_Winner + 1)..(C25_NumCandidates - 1) :
          /\ C25_Score(C25_Shift(d)) = C25_Score(C25_Shift(C25_Winner))
          /\ C25_Shift(d) # C25_Shift(C25_Winner)
    /\ \E k \in 1..Len(features1.onsets) : \E l \in 1..Len(features2.onsets) :
          features2.onsets[l] - (features1.onsets[k] + C25_Shift(C25_Winner)) = 1000
    /\ QEq(results[1].offset, Q(C25_Shift(C25_Winner), 1))


(***************************************************************************)
(* SpectralCorrelationSync::synchronize alone, on the centroid series the  *)
(* extraction can produce: extractSpectralCentroid yields no negative      *)
(* value.                                                                  *)
(***************************************************************************)
MaxCentroidLen == 3

CentroidLevels == {QZero, QOne, Q(3, 1)}

CentroidSeries ==
    UNION {[1..n -> CentroidLevels] : n \in 1..MaxCentroidLen}

CentroidFeatures(centroid) ==
    [EmptyFeatures EXCEPT !.spectralCentroid = centroid, !.sampleRate = SAMPLE_RATE]

InitSpectral ==
    /\ NoOthers
    /\ \E centroid1 \in CentroidSeries : \E centroid2 \in CentroidSeries :
          /\ features1 = CentroidFeatures(centroid1)
          /\ features2 = CentroidFeatures(centroid2)
    /\ audio1 = <<>>
    /\ audio2 = <<>>
    /\ pc = "spectral"
    /\ failure = "none"
    /\ mfccReadEnd = <<0, 0>>
    /\ contentType = "UNKNOWN"
    /\ results = <<>>
    /\ weights = <<>>
    /\ finalResult = NoResult
    /\ dtwMatrix = <<>>
    /\ path = <<>>

\* SpectralCorrelationSync::synchronize(features1, features2)
SpectralRun ==
    /\ pc = "spectral"
    /\ results' = <<SpectralCorrelationSynchronize(features1, features2)>>
    /\ pc' = "spectral_done"
    /\ UNCHANGED otherVars
    /\ UNCHANGED <<audio1, audio2, features1, features2, failure, mfccReadEnd,
                   contentType, weights, finalResult, dtwMatrix, path>>

NextSpectral == SpectralRun

SpecSpectral == InitSpectral /\ [][NextSpectral]_vars

\* half the shorter length
C26_MaxLag ==
    IF Len(features1.spectralCentroid) < Len(features2.spectralCentroid)
    THEN Len(features1.spectralCentroid) \div 2
    ELSE Len(features2.spectralCentroid) \div 2

\* the first sample of side 1 (1-based) that has a partner at this lag
C26_First(lag) == IF lag < 0 THEN 1 - lag ELSE 1

\* the last one
C26_Last(lag) ==
    IF Len(features2.spectralCentroid) - lag < Len(features1.spectralCentroid)
    THEN Len(features2.spectralCentroid) - lag
    ELSE Len(features1.spectralCentroid)

\* the number of overlapping samples at this lag
C26_Count(lag) == C26_Last(lag) - C26_First(lag) + 1

\* the mean product of the overlapping samples at this lag
C26_Mean(lag) ==
    QDiv(QSum([k \in 1..C26_Count(lag) |->
                 QMul(features1.spectralCentroid[C26_First(lag) + k - 1],
                      features2.spectralCentroid[C26_First(lag) + k - 1 + lag])]),
         Q(C26_Count(lag), 1))

\* C26: for two non-empty centroid series SpectralCorrelationSync::synchronize
\* returns an integer lag in [-maxLag, maxLag], maxLag being half the shorter
\* length, whose mean product of overlapping samples is maximal over the
\* lags with a non-empty overlap; the offset is lag * hop / sampleRate and
\* the confidence is max(0, that mean).
C26_BestLag ==
    (/\ pc = "spectral_done"
     /\ features1.spectralCentroid # <<>>
     /\ features2.spectralCentroid # <<>>) =>
        \E lag \in (-C26_MaxLag)..C26_MaxLag :
            /\ C26_Count(lag) > 0
            /\ \A other \in (-C26_MaxLag)..C26_MaxLag :
                  C26_Count(other) > 0 => QLeq(C26_Mean(other), C26_Mean(lag))
            /\ QEq(results[1].offset,
                   Q(lag * SPECTRAL_HOP_SIZE, features1.sampleRate))
            /\ QEq(results[1].confidence, QMax(QZero, C26_Mean(lag)))

\* C26 happens: the scan has returned a lag other than 0 with a positive
\* mean, which a lag with more overlapping samples and a greater sum of
\* products does not reach.
C26_Witness ==
    /\ pc = "spectral_done"
    /\ features1.spectralCentroid # <<>>
    /\ features2.spectralCentroid # <<>>
    /\ ~QEq(results[1].offset, QZero)
    /\ QLess(QZero, results[1].confidence)
    /\ \E lag \in (-C26_MaxLag)..C26_MaxLag :
          /\ C26_Count(lag) > 1
          /\ QLess(C26_Mean(lag), results[1].confidence)
          /\ QLess(results[1].confidence,
                   QMul(C26_Mean(lag), Q(C26_Count(lag), 1)))


(***************************************************************************)
(* combineResults as a weighted mean, checked under SpecFusion.            *)
(***************************************************************************)
\* weights[i] * results[i].confidence is positive
C27_Counts(i) == QLess(QZero, QMul(weights[i], results[i].confidence))

\* the results with the offset of algorithm i replaced
C27_Replaced(i, offset) == [results EXCEPT ![i].offset = offset]

\* C27: when all confidences are non-negative and some effective weight
\* weights[i] * confidence[i] is positive, the offset combineResults returns
\* lies between the least and the greatest offset of the algorithms with a
\* positive effective weight; and an algorithm of confidence 0 has no
\* influence: with any other offset in its place combineResults returns the
\* same offset and the same confidence.
C27_WeightedMean ==
    (/\ pc = "score"
     /\ \A i \in 1..Len(results) : QLeq(QZero, results[i].confidence)
     /\ \E i \in 1..Len(results) : C27_Counts(i)) =>
        /\ \E lo \in 1..Len(results) :
              /\ C27_Counts(lo)
              /\ QLeq(results[lo].offset, finalResult.offset)
        /\ \E hi \in 1..Len(results) :
              /\ C27_Counts(hi)
              /\ QLeq(finalResult.offset, results[hi].offset)
        /\ \A i \in 1..Len(results) : \A offset \in Offsets :
              QEq(results[i].confidence, QZero) =>
                 /\ QEq(CombineResults(C27_Replaced(i, offset), weights).offset,
                        finalResult.offset)
                 /\ QEq(CombineResults(C27_Replaced(i, offset), weights).confidence,
                        finalResult.confidence)

\* C27 happens: combineResults has fused four results, one of confidence 0
\* and offset LargeOffset, the others of positive confidence and not all of
\* the same offset, to an offset strictly between the two.
C27_Witness ==
    /\ pc = "score"
    /\ Len(results) = NumAlgorithms
    /\ \E i \in 1..NumAlgorithms :
          /\ QEq(results[i].confidence, QZero)
          /\ QEq(results[i].offset, Q(LargeOffset, 1))
    /\ \E i \in 1..NumAlgorithms : \E j \in 1..NumAlgorithms :
          /\ C27_Counts(i) /\ C27_Counts(j)
          /\ QLess(results[i].offset, finalResult.offset)
          /\ QLess(finalResult.offset, results[j].offset)


(***************************************************************************)
(* VideoTranscoder::processBatch (src/src/transcoder.cpp), with            *)
(* findAudioMatches and the loop over the videos taken one iteration at a  *)
(* time.  ffprobe and ffmpeg are the environment: the durations are drawn  *)
(* at the start, the detected offset and the outcome of ffmpeg at each     *)
(* call.  Processing times and error messages are left out.                *)
(***************************************************************************)
MaxVideos == 3

DEFAULT_DURATION_TOLERANCE == 30

Range(xs) == {xs[k] : k \in 1..Len(xs)}

UpperCase ==
    <<"A", "B", "C", "D", "E", "F", "G", "H", "I", "J", "K", "L", "M",
      "N", "O", "P", "Q", "R", "S", "T", "U", "V", "W", "X", "Y", "Z">>
LowerCase ==
    <<"a", "b", "c", "d", "e", "f", "g", "h", "i", "j", "k", "l", "m",
      "n", "o", "p", "q", "r", "s", "t", "u", "v", "w", "x", "y", "z">>

\* ::tolower on one character
ToLower(c) ==
    IF \E k \in 1..Len(UpperCase) : UpperCase[k] = c
    THEN LowerCase[CHOOSE k \in 1..Len(UpperCase) : UpperCase[k] = c]
    ELSE c

\* std::string::find(pattern) != npos
Contains(filename, pattern) ==
    \E k \in 1..(Len(filename) - Len(pattern) + 1) :
        SubSeq(filename, k, k + Len(pattern) - 1) = pattern

\* the position of the dot path::extension() starts at, 0 when there is none
ExtensionDot(filename) ==
    IF \E k \in 2..Len(filename) : filename[k] = "."
    THEN CHOOSE k \in 2..Len(filename) :
            /\ filename[k] = "."
            /\ \A later \in (k + 1)..Len(filename) : filename[later] # "."
    ELSE 0

\* path::extension() and path::stem()
Extension(filename) ==
    IF ExtensionDot(filename) = 0 THEN <<>>
    ELSE SubSeq(filename, ExtensionDot(filename), Len(filename))
Stem(filename) ==
    IF ExtensionDot(filename) = 0 THEN filename
    ELSE SubSeq(filename, 1, ExtensionDot(filename) - 1)

SUPPORTED_VIDEO_EXTENSIONS ==
    {<<".", "m", "p", "4">>, <<".", "m", "o", "v">>, <<".", "a", "v", "i">>,
     <<".", "m", "k", "v">>, <<".", "m", "t", "s">>, <<".", "m", "2", "t", "s">>,
     <<".", "M", "P", "4">>, <<".", "M", "O", "V">>, <<".", "A", "V", "I">>,
     <<".", "M", "K", "V">>, <<".", "M", "T", "S">>, <<".", "M", "2", "T", "S">>}
SUPPORTED_AUDIO_EXTENSIONS ==
    {<<".", "w", "a", "v">>, <<".", "m", "p", "3">>, <<".", "a", "a", "c">>,
     <<".", "f", "l", "a", "c">>, <<".", "m", "4", "a">>,
     <<".", "W", "A", "V">>, <<".", "M", "P", "3">>, <<".", "A", "A", "C">>,
     <<".", "F", "L", "A", "C">>, <<".", "M", "4", "A">>}

IsVideoFile(file) == Extension(file) \in SUPPORTED_VIDEO_EXTENSIONS
IsAudioFile(file) == Extension(file) \in SUPPORTED_AUDIO_EXTENSIONS

\* filterVideoFiles and filterAudioFiles keep the order of the listing
FilterVideoFiles(files) == SelectSeq(files, IsVideoFile)
FilterAudioFiles(files) == SelectSeq(files, IsAudioFile)

\* the lowercased file name holds none of "_d.", "_low.", "_l."
IsHighGainFile(filepath) ==
    LET filename == [k \in 1..Len(filepath) |-> ToLower(filepath[k])]
    IN  /\ ~Contains(filename, <<"_", "d", ".">>)
        /\ ~Contains(filename, <<"_", "l", "o", "w", ".">>)
        /\ ~Contains(filename, <<"_", "l", ".">>)

\* stem + "_D", "_d", "_low", "_L" + extension, in this order
LowGainPatterns(highGainFile) ==
    <<Stem(highGainFile) \o <<"_", "D">> \o Extension(highGainFile),
      Stem(highGainFile) \o <<"_", "d">> \o Extension(highGainFile),
      Stem(highGainFile) \o <<"_", "l", "o", "w">> \o Extension(highGainFile),
      Stem(highGainFile) \o <<"_", "L">> \o Extension(highGainFile)>>

\* std::filesystem::exists, for a file of the input directory
Exists(files, filepath) == filepath \in Range(files)

\* the first pattern that exists, the empty path when none does
GetLowGainCounterpart(files, highGainFile) ==
    IF ~IsHighGainFile(highGainFile) THEN <<>>
    ELSE IF \E k \in 1..4 : Exists(files, LowGainPatterns(highGainFile)[k])
    THEN LowGainPatterns(highGainFile)[
            CHOOSE k \in 1..4 :
                /\ Exists(files, LowGainPatterns(highGainFile)[k])
                /\ \A before \in 1..(k - 1) :
                      ~Exists(files, LowGainPatterns(highGainFile)[before])]
    ELSE <<>>

\* 0.0 for a file that does not exist or that ffprobe cannot read
GetFileDuration(files, known, filepath) ==
    IF ~Exists(files, filepath) THEN 0 ELSE known[filepath]

IsDurationMatch(files, known, videoFile, audioFile) ==
    IF GetFileDuration(files, known, videoFile) <= 0
       \/ GetFileDuration(files, known, audioFile) <= 0
    THEN FALSE
    ELSE Abs(GetFileDuration(files, known, videoFile)
             - GetFileDuration(files, known, audioFile)) <= DEFAULT_DURATION_TOLERANCE

\* AudioMatch(): syncSuccess(false), syncOffset(0.0), confidenceScore(0.0)
AudioMatch ==
    [highGainFile |-> <<>>, lowGainFile |-> <<>>, syncSuccess |-> FALSE,
     syncOffset |-> 0, confidenceScore |-> QZero, method |-> "DURATION_MATCH"]

\* AudioMatch::isValid
IsValid(files, match) ==
    match.highGainFile # <<>> /\ Exists(files, match.highGainFile)

\* the high-gain files within the duration tolerance, in the order offered
DurationCandidates(files, known, videoFile, offered) ==
    LET Candidate(audioFile) ==
            IsHighGainFile(audioFile) /\ IsDurationMatch(files, known, videoFile, audioFile)
    IN  SelectSeq(offered, Candidate)

\* findBestAudioMatch: the first candidate is accepted (syncSuccess = true);
\* <<>> stands for std::nullopt
FindBestAudioMatch(files, known, videoFile, offered, offset) ==
    IF DurationCandidates(files, known, videoFile, offered) = <<>> THEN <<>>
    ELSE <<[highGainFile |-> DurationCandidates(files, known, videoFile, offered)[1],
            lowGainFile |->
                GetLowGainCounterpart(files,
                    DurationCandidates(files, known, videoFile, offered)[1]),
            syncSuccess |-> TRUE,
            syncOffset |-> offset,
            confidenceScore |-> Q(8, 10),
            method |-> "AUTO_CORRELATION"]>>

\* the audio files not already used
AvailableAudio(files, used) ==
    LET Unused(audioFile) == audioFile \notin Range(used)
    IN  SelectSeq(files, Unused)

NotMarked(used, match) == used

\* usedAudioFiles.push_back(match->highGainFile) and, when it is not empty,
\* push_back(match->lowGainFile)
MarkUsed(used, match) ==
    IF match.lowGainFile # <<>>
    THEN used \o <<match.highGainFile, match.lowGainFile>>
    ELSE Append(used, match.highGainFile)

\* inputVideo.stem() + ".mov"
GenerateOutputPath(inputVideo) == Stem(inputVideo) \o <<".", "m", "o", "v">>

\* transcodeVideo: no success without a valid match; otherwise the outcome
\* of create_directories and of ffmpeg decides (a dry run succeeds)
TranscodeVideo(files, videoFile, audioMatch, outputFile, completes) ==
    [inputVideo |-> videoFile, outputFile |-> outputFile, audioMatch |-> audioMatch,
     success |-> IsValid(files, audioMatch) /\ completes]

\* BatchProgress()
BatchProgress ==
    [totalFiles |-> 0, completedFiles |-> 0, successfulFiles |-> 0, failedFiles |-> 0]

SuccessOnly(before, result) ==
    [before EXCEPT !.completedFiles = @ + 1,
                   !.successfulFiles = IF result.success THEN @ + 1 ELSE @]

\* progress.completedFiles++; then successfulFiles++ or failedFiles++
Advance(before, result) ==
    [before EXCEPT !.completedFiles = @ + 1,
                   !.successfulFiles = IF result.success THEN @ + 1 ELSE @,
                   !.failedFiles = IF result.success THEN @ ELSE @ + 1]

\* reportProgress hands the progress to the callback main has installed
ReportProgress(issued, report) == Append(issued, report)

\* the files a directory may hold besides its videos: two high-gain
\* recordings, low-gain counterparts of both, and a text file
Digits == <<"1", "2", "3", "4", "5", "6", "7", "8", "9">>
VideoName(k) == <<"v", Digits[k], ".", "m", "p", "4">>
AudioNames ==
    <<<<"a", ".", "w", "a", "v">>,
      <<"a", "_", "D", ".", "w", "a", "v">>,
      <<"b", ".", "w", "a", "v">>,
      <<"b", "_", "l", "o", "w", ".", "w", "a", "v">>>>
NoteName == <<"n", ".", "t", "x", "t">>

AllNames == [k \in 1..MaxVideos |-> VideoName(k)] \o AudioNames \o <<NoteName>>

\* the listings of the directories holding the text file and some of the
\* other files, in the order of AllNames or in the opposite order
Listing(order, present) ==
    LET Held(name) == name \in present \/ name = NoteName
    IN  SelectSeq(order, Held)
Listings ==
    {Listing(order, present) :
        order \in {AllNames, Reverse(AllNames)}, present \in SUBSET Range(AllNames)}

VideoDurations == {0, 10, 50}
AudioDurations == {10, 50}
DetectedOffsets == {0, 2}

\* the duration of every file of a listing
Durations(listing, video, audio) ==
    [name \in Range(listing) |->
        IF name \in DOMAIN video THEN video[name]
        ELSE IF name \in DOMAIN audio THEN audio[name] ELSE 10]

InitBatch ==
    /\ NoSync
    /\ NoUtilities
    /\ pc = "discover"
    /\ failure = "none"
    /\ directory \in Listings
    /\ \E video \in [{name \in Range(directory) : IsVideoFile(name)} -> VideoDurations] :
       \E audio \in [{name \in Range(directory) :
                         IsAudioFile(name) /\ IsHighGainFile(name)} -> AudioDurations] :
          durations = Durations(directory, video, audio)
    /\ videoFiles = <<>>
    /\ audioFiles = <<>>
    /\ matches = <<>>
    /\ usedAudioFiles = <<>>
    /\ availableAudio = <<>>
    /\ batchResults = <<>>
    /\ progress = BatchProgress
    /\ reports = <<>>

\* processBatch up to findAudioMatches: without videos it returns the
\* empty results
Discover ==
    /\ pc = "discover"
    /\ videoFiles' = FilterVideoFiles(directory)
    /\ audioFiles' = FilterAudioFiles(directory)
    /\ pc' = IF FilterVideoFiles(directory) = <<>> THEN "batch_done" ELSE "match"
    /\ UNCHANGED <<directory, durations, matches, usedAudioFiles, availableAudio,
                   batchResults, progress, reports>>
    /\ UNCHANGED <<syncVars, utilityVars, failure>>

\* what one iteration of the loop of findAudioMatches leaves behind
MatchAssign(offered, match) ==
    /\ availableAudio' = offered
    /\ matches' = Append(matches, IF match # <<>> /\ match[1].syncSuccess
                                  THEN match[1] ELSE AudioMatch)
    /\ usedAudioFiles' = IF match # <<>> /\ match[1].syncSuccess
                         THEN MarkUsed(usedAudioFiles, match[1])
                         ELSE usedAudioFiles

\* one iteration of the loop of findAudioMatches over the videos
MatchVideo ==
    /\ pc = "match"
    /\ Len(matches) < Len(videoFiles)
    /\ \E offset \in DetectedOffsets :
          MatchAssign(AvailableAudio(audioFiles, usedAudioFiles),
                      FindBestAudioMatch(directory, durations,
                                         videoFiles[Len(matches) + 1],
                                         AvailableAudio(audioFiles, usedAudioFiles),
                                         offset))
    /\ pc' = IF Len(matches) + 1 < Len(videoFiles) THEN "match" ELSE "progress"
    /\ UNCHANGED <<directory, videoFiles, audioFiles, durations, batchResults,
                   progress, reports>>
    /\ UNCHANGED <<syncVars, utilityVars, failure>>

\* progress.totalFiles = videoFiles.size(); reportProgress(progress)
StartProgress ==
    /\ pc = "progress"
    /\ progress' = [progress EXCEPT !.totalFiles = Len(videoFiles)]
    /\ reports' = ReportProgress(reports,
                                 [progress EXCEPT !.totalFiles = Len(videoFiles)])
    /\ pc' = "transcode"
    /\ UNCHANGED <<directory, videoFiles, audioFiles, durations, matches,
                   usedAudioFiles, availableAudio, batchResults>>
    /\ UNCHANGED <<syncVars, utilityVars, failure>>

\* what one iteration of the loop of processBatch leaves behind
TranscodeAssign(result) ==
    /\ batchResults' = Append(batchResults, result)
    /\ progress' = Advance(progress, result)
    /\ reports' = ReportProgress(reports, Advance(progress, result))

\* one iteration of the loop of processBatch over the videos
TranscodeNext ==
    /\ pc = "transcode"
    /\ Len(batchResults) < Len(videoFiles)
    /\ \E completes \in BOOLEAN :
          TranscodeAssign(
              TranscodeVideo(directory, videoFiles[Len(batchResults) + 1],
                             matches[Len(batchResults) + 1],
                             GenerateOutputPath(videoFiles[Len(batchResults) + 1]),
                             completes))
    /\ pc' = IF Len(batchResults) + 1 < Len(videoFiles) THEN "transcode" ELSE "batch_done"
    /\ UNCHANGED <<directory, videoFiles, audioFiles, durations, matches,
                   usedAudioFiles, availableAudio>>
    /\ UNCHANGED <<syncVars, utilityVars, failure>>

NextBatch ==
    \/ Discover
    \/ MatchVideo
    \/ StartProgress
    \/ TranscodeNext

SpecBatch == InitBatch /\ [][NextBatch]_vars


\* the matches made so far that succeeded
C29_Matched == {i \in 1..Len(matches) : matches[i].syncSuccess}

\* C29: findAudioMatches returns exactly one AudioMatch per input video, in
\* input order (a successful match i names a high-gain file within the
\* duration tolerance of video i); no audio file is the highGainFile of two
\* videos; and the audio files of a successful match are not among the
\* candidates offered to any later video.
C29_OneMatchPerVideo ==
    /\ Len(matches) <= Len(videoFiles)
    /\ pc \in {"progress", "transcode"} => Len(matches) = Len(videoFiles)
    /\ pc = "match" => Len(matches) < Len(videoFiles)
    /\ \A i \in C29_Matched :
          /\ matches[i].highGainFile \in Range(audioFiles)
          /\ Abs(durations[videoFiles[i]] - durations[matches[i].highGainFile])
                <= DEFAULT_DURATION_TOLERANCE
    /\ \A i \in C29_Matched : \A j \in C29_Matched :
          i # j => matches[i].highGainFile # matches[j].highGainFile
    /\ \A i \in C29_Matched :
          i < Len(matches) =>
             /\ matches[i].highGainFile \notin Range(availableAudio)
             /\ matches[i].lowGainFile \notin Range(availableAudio)

\* C29 happens: two videos within the tolerance of the same two recordings
\* have been matched, the first with a recording that has a low-gain
\* counterpart, the second with the other recording.
C29_Witness ==
    /\ pc = "progress"
    /\ Len(matches) = 2
    /\ C29_Matched = {1, 2}
    /\ matches[1].lowGainFile # <<>>
    /\ matches[1].lowGainFile \in Range(audioFiles)
    /\ Abs(durations[videoFiles[2]] - durations[matches[1].highGainFile])
          <= DEFAULT_DURATION_TOLERANCE
    /\ matches[2].highGainFile # matches[1].highGainFile
    /\ Len(availableAudio) < Len(audioFiles)

\* the number of videos discovered
C30_N == Len(videoFiles)

\* C30: over N >= 1 discovered videos every progress report of processBatch
\* has completedFiles = successfulFiles + failedFiles <= totalFiles = N; the
\* first report has completedFiles = 0 and each later one 1 more than the
\* one before; when processBatch returns, N + 1 reports have been made, the
\* last with completedFiles = N, and the returned vector holds one
\* ProcessingResult per video in discovery order.  Without videos it
\* returns an empty vector and makes no report.
C30_ProgressReports ==
    /\ \A k \in 1..Len(reports) :
          /\ reports[k].completedFiles
                = reports[k].successfulFiles + reports[k].failedFiles
          /\ reports[k].completedFiles <= reports[k].totalFiles
          /\ reports[k].totalFiles = C30_N
          /\ reports[k].completedFiles = k - 1
    /\ (pc = "batch_done" /\ C30_N >= 1) =>
          /\ Len(reports) = C30_N + 1
          /\ reports[Len(reports)].completedFiles = C30_N
          /\ Len(batchResults) = C30_N
          /\ \A i \in 1..C30_N : batchResults[i].inputVideo = videoFiles[i]
    /\ (pc = "batch_done" /\ C30_N = 0) =>
          /\ batchResults = <<>>
          /\ reports = <<>>

\* C30 happens: processBatch has returned for two videos, one transcoded
\* and one failed.
C30_Witness ==
    /\ pc = "batch_done"
    /\ C30_N = 2
    /\ Len(reports) = 3
    /\ reports[3].successfulFiles = 1
    /\ reports[3].failedFiles = 1
    /\ Len(batchResults) = 2

\* processBatch has returned for a directory without videos
C30_NoVideos ==
    /\ pc = "batch_done"
    /\ C30_N = 0
    /\ directory # <<>>
    /\ reports = <<>>

====
